---- MODULE Spec2Model ----
(***************************************************************************)
(* Timing-synchronisation core of the dubbing pipeline.                    *)
(*                                                                         *)
(* Times are integers in milliseconds.  The code divides window bounds by  *)
(* 1000 to obtain seconds; that division is monotone, so every order and   *)
(* equality stated here in milliseconds is the one that holds in seconds.  *)
(* A text is modelled by the sequence of sentence units (or characters) it *)
(* is made of.                                                             *)
(***************************************************************************)
EXTENDS Integers, Sequences, FiniteSets, TLC

VARIABLES
    \* ---- segment_by_silence (pipeline/whisper_transcribe.py) ----
    seg_pc,            \* position inside segment_by_silence
    audio_len,         \* len(audio), ms
    silences,          \* the silent runs of the audio, <<start, end>> in ms
    sentences,         \* word count of every sentence unit of full_text
    segments_ms,       \* the window list (mutated by the merging loop)
    merged_segments,   \* windows after short-window merging
    safety_counter,    \* iterations of the merging loop
    whisper_segments   \* the function's result

segVars == <<seg_pc, audio_len, silences, sentences, segments_ms,
             merged_segments, safety_counter, whisper_segments>>

VARIABLES
    \* ---- assign_text_to_pauses (pipeline/semantic_segmenter.py) ----
    at_pc,             \* "idle", "call" or "done"
    at_sentences,      \* word count of every sentence handed in
    at_pauses,         \* pause positions, ms
    total_ms,          \* length of the clip, ms
    at_segments        \* the function's result

assignVars == <<at_pc, at_sentences, at_pauses, total_ms, at_segments>>

VARIABLES
    \* ---- split_into_chunks (pipeline/split_chunks.py) ----
    ck_pc,             \* "idle", "load", "loop", "done" or "failed"
    ck_segments,       \* the segments of translated.json: start, end, dst
    leading_silence,   \* leading_silence of translated.json, ms
    ck_i,              \* index of the segment the loop handles next
    chunks,            \* the chunk list being built
    current_text, current_start, current_end,   \* the running chunk
    saved_chunks,      \* the chunk files written by save_chunk
    ck_error           \* the exception split_into_chunks ended with

chunkVars == <<ck_pc, ck_segments, leading_silence, ck_i, chunks,
               current_text, current_start, current_end, saved_chunks,
               ck_error>>

VARIABLES
    \* ---- merge_audio (pipeline/merge_audio.py) ----
    mg_pc,             \* "idle", "start", "list", "concat" or "done"
    mg_chunks,         \* the chunk files: start and end, ms
    mg_clips,          \* length of the tts_fixed wav of every chunk, ms
    mg_i,              \* index of the chunk the loop handles next
    concat_list,       \* the entries written to concat_list.txt
    placements         \* where every clip lies on the final track

mergeVars == <<mg_pc, mg_chunks, mg_clips, mg_i, concat_list, placements>>

VARIABLES
    \* ---- fit_tts_into_segment (pipeline/voice_over_tts.py) ----
    fit_pc,            \* "idle", "call", "done" or "failed"
    clip_ms,           \* len(audio) of the synthesized clip
    target_ms,         \* the window the clip has to fill
    fitted,            \* the returned audio, a sequence of runs
    fit_branch,        \* the return statement taken
    fit_warning,       \* the hard-trim warning was printed
    fit_error          \* the exception the call ended with

fitVars == <<fit_pc, clip_ms, target_ms, fitted, fit_branch, fit_warning,
             fit_error>>

VARIABLES
    \* ---- build_atempo_chain (pipeline/voice_over_tts.py) ----
    ac_pc,             \* "idle", "call", "done" or "failed"
    ac_ratio,          \* the ratio handed in, a fraction <<num, den>>
    filters,           \* the stages of the returned chain, fractions
    \* ---- ffmpeg_stretch (pipeline/stretch_audio.py) ----
    fs_pc,             \* "idle", "loop", "done" or "failed"
    fs_factor,         \* the factor handed in, a fraction <<num, den>>
    remaining,         \* the factor still to apply
    fs_current,        \* the file the next stage reads
    fs_calls           \* the ffmpeg_apply calls made: input, output, tempo

tempoVars == <<ac_pc, ac_ratio, filters, fs_pc, fs_factor, remaining,
               fs_current, fs_calls>>

VARIABLES
    \* ---- translate_segments (pipeline/translate_chunks.py) ----
    tr_pc,             \* "idle", "call", "parse", "done" or "failed"
    tr_segments,       \* the segments of transcript.json: id, start, end, text
    gpt_response,      \* the reply of the translation service
    translated_json,   \* the segments written to translated.json
    tr_error,          \* the exception translate_segments ended with
    \* ---- batch_translate_segments (services/subtitles.py) ----
    bt_pc,             \* "idle", "call", "parse", "done" or "failed"
    bt_segments,       \* the subtitle segments handed in: start, end, text
    translated_response,   \* the "[index] text" items of the service's reply
    bt_result,         \* the returned list
    bt_error           \* the exception the call ended with

transVars == <<tr_pc, tr_segments, gpt_response, translated_json, tr_error,
               bt_pc, bt_segments, translated_response, bt_result, bt_error>>

VARIABLES
    \* ---- clean_segments_with_gpt (helpers/gpt_cleaner.py) ----
    cl_pc,             \* "idle", "call", "chunk", "check", "done" or "failed"
    json_segments,     \* json_data["segments"]: id, start, end, text
    cl_chunks,         \* the chunks of _chunk_segments
    cl_k,              \* index of the chunk handled next
    cleaned_segments,  \* the cleaned list being built
    cl_error,          \* the exception the call ended with
    attempt,           \* calls of the service made for the current chunk
    cl_reply,          \* the parsed reply _call_gpt returned for it
    \* ---- VoiceActivityDetector.filter_segments (helpers/vad_filter.py) ----
    vad_pc,            \* "idle", "call", "done" or "failed"
    vad_segments,      \* the segments handed in
    filtered_segments  \* the returned list

cleanVars == <<cl_pc, json_segments, cl_chunks, cl_k, cleaned_segments,
               cl_error, attempt, cl_reply, vad_pc, vad_segments,
               filtered_segments>>

VARIABLES
    \* ---- generate_voice_over_track (pipeline/voice_over_tts.py) ----
    vo_pc,             \* "idle", "load", "onset", "place", "export", "done"
                       \* or "failed"
    vo_file,           \* translated.json: "missing", "dict" or "list"
    vo_raw,            \* its segments: id, start, end, dst
    transcript_duration,   \* "duration" of transcript.json, ms, 0 if absent
    vo_segments,       \* the loaded Segment list
    total_duration,    \* load_original_duration's result, ms
    timeline_duration, \* the target duration, ms
    vo_i,              \* index of the segment placed next
    final_audio,       \* length of the timeline, ms
    overlays,          \* every overlay made: position and clip length, ms
    wav_duration,      \* length of the exported wav, ms
    vo_error           \* the exception the run ended with

voiceVars == <<vo_pc, vo_file, vo_raw, transcript_duration, vo_segments,
               total_duration, timeline_duration, vo_i, final_audio,
               overlays, wav_duration, vo_error>>

\* The dubbing pipeline of dub.py: the command to run next, the pipeline
\* folders, the commands started so far and the first validation gate met.
VARIABLES pl_pc, disk, pl_started, pl_gate

pipeVars == <<pl_pc, disk, pl_started, pl_gate>>

\* One external command: the call site, its timeout, the child process and
\* whether the child ever ends by itself.
VARIABLES sp_pc, sp_site, proc, proc_hangs, returncode, sp_error

procVars == <<sp_pc, sp_site, proc, proc_hangs, returncode, sp_error>>

VARIABLES
    \* ---- the energy detectors (speech_onset.py, detect_speech_start.py,
    \*      semantic_segmenter.py) ----
    sg_pc,             \* "idle", "call" or "done"
    sg_fn,             \* the detector that ran, "none" before
    energies,          \* energy of every analysis frame, before smoothing
    smooth,            \* length of the smoothing kernel
    hold_ms,           \* hold window of the onset or speech-start search
    smoothed,          \* the energies the search compares (times sg_scale)
    sg_scale,          \* factor the smoothed energies are multiplied by
    threshold,         \* speech threshold, times 5 * sg_scale
    silence_thr,       \* silence threshold of detect_pauses_energy, same unit
    onset,             \* the reported onset, ms
    sg_pauses          \* the pauses detect_pauses_energy returns, ms

signalVars == <<sg_pc, sg_fn, energies, smooth, hold_ms, smoothed, sg_scale,
                threshold, silence_thr, onset, sg_pauses>>

VARIABLES
    \* ---- whisper_transcribe (pipeline/whisper_transcribe.py) ----
    wt_pc,             \* "idle", "save", "clean", "done" or "failed"
    wt_data,           \* data["segments"] as the provider returned them
    wt_language_ok,    \* whether the detected language is the expected one
    transcript_json,   \* the segments in transcript.json, "none" before
    wt_error           \* the exception the call ended with

transcribeVars == <<wt_pc, wt_data, wt_language_ok, transcript_json, wt_error>>

VARIABLES
    \* ---- the bot's media handlers (handlers/media.py, subtitles.py) ----
    processing,        \* data.get("processing") of the user's FSM data
    fsm_state,         \* the user's FSM state
    h_handler,         \* per message: the handler that took it, or "none"
    h_pc,              \* per message: "new", "working", "replying", "exited"
    h_exit             \* per message: how its handler ended, or "none"

handlerVars == <<processing, fsm_state, h_handler, h_pc, h_exit>>

vars == <<segVars, assignVars, chunkVars, mergeVars, fitVars, tempoVars,
          transVars, cleanVars, voiceVars, pipeVars, procVars, signalVars,
          transcribeVars, handlerVars>>

notSegVars == <<assignVars, chunkVars, mergeVars, fitVars, tempoVars,
                transVars, cleanVars, voiceVars, pipeVars, procVars,
                signalVars, transcribeVars, handlerVars>>
notAssignVars == <<segVars, chunkVars, mergeVars, fitVars, tempoVars,
                   transVars, cleanVars, voiceVars, pipeVars, procVars,
                   signalVars, transcribeVars, handlerVars>>
notChunkVars == <<segVars, assignVars, mergeVars, fitVars, tempoVars,
                  transVars, cleanVars, voiceVars, pipeVars, procVars,
                  signalVars, transcribeVars, handlerVars>>
notMergeVars == <<segVars, assignVars, chunkVars, fitVars, tempoVars,
                  transVars, cleanVars, voiceVars, pipeVars, procVars,
                  signalVars, transcribeVars, handlerVars>>
notFitVars == <<segVars, assignVars, chunkVars, mergeVars, tempoVars,
                transVars, cleanVars, voiceVars, pipeVars, procVars,
                signalVars, transcribeVars, handlerVars>>
notTempoVars == <<segVars, assignVars, chunkVars, mergeVars, fitVars,
                  transVars, cleanVars, voiceVars, pipeVars, procVars,
                  signalVars, transcribeVars, handlerVars>>
notTransVars == <<segVars, assignVars, chunkVars, mergeVars, fitVars,
                  tempoVars, cleanVars, voiceVars, pipeVars, procVars,
                  signalVars, transcribeVars, handlerVars>>
notCleanVars == <<segVars, assignVars, chunkVars, mergeVars, fitVars,
                  tempoVars, transVars, voiceVars, pipeVars, procVars,
                  signalVars, transcribeVars, handlerVars>>
notVoiceVars == <<segVars, assignVars, chunkVars, mergeVars, fitVars,
                  tempoVars, transVars, cleanVars, pipeVars, procVars,
                  signalVars, transcribeVars, handlerVars>>
notPipeVars == <<segVars, assignVars, chunkVars, mergeVars, fitVars,
                 tempoVars, transVars, cleanVars, voiceVars, procVars,
                 signalVars, transcribeVars, handlerVars>>
notProcVars == <<segVars, assignVars, chunkVars, mergeVars, fitVars,
                 tempoVars, transVars, cleanVars, voiceVars, pipeVars,
                 signalVars, transcribeVars, handlerVars>>
notSignalVars == <<segVars, assignVars, chunkVars, mergeVars, fitVars,
                   tempoVars, transVars, cleanVars, voiceVars, pipeVars,
                   procVars, transcribeVars, handlerVars>>
notTranscribeVars == <<segVars, assignVars, chunkVars, mergeVars, fitVars,
                       tempoVars, transVars, cleanVars, voiceVars, pipeVars,
                       procVars, signalVars, handlerVars>>
notHandlerVars == <<segVars, assignVars, chunkVars, mergeVars, fitVars,
                    tempoVars, transVars, cleanVars, voiceVars, pipeVars,
                    procVars, signalVars, transcribeVars>>

(***************************************************************************)
(* Bounds of the model.                                                    *)
(***************************************************************************)
MaxBlocks == 4       \* speech blocks in one audio clip
MaxSentences == 3    \* sentence units in one text

SpeechLens == {500, 5000, 34000}   \* lengths of a speech block, ms
SilenceLens == {300, 1000}         \* lengths of a silent run, ms
WordCounts == {1, 13}              \* words in one sentence unit
MaxPauses == 3       \* pauses handed to assign_text_to_pauses
PauseGrid == {300, 1000, 2000}     \* positions of a detected pause, ms
ClipLens == {2000, 3000}           \* total_ms of assign_text_to_pauses
MaxSegments == 3     \* segments in translated.json
TextLens == {0, 3, 130, 261, 351}  \* characters of a translated text
SegDurations == {2000, 16000}      \* length of a segment, ms
LeadingSilences == {0, 1000}       \* leading_silence of translated.json, ms
MaxChunks == 3       \* chunk files handed to merge_audio
ChunkTimes == {0, 1000, 1040, 3000}   \* start or end of a chunk, ms
FixedClipLens == {1000, 2000}      \* length of a tts_fixed wav, ms
MaxTranslated == 3                 \* segments handed to a translation
MaxCleaned == 3                    \* segments handed to a cleaner
MaxVoiced == 2                     \* segments of a voice-over track
MaxStageFiles == 3                 \* files a pipeline stage leaves
MaxFrames == 6                     \* analysis frames of one clip
MaxMessages == 2                   \* media messages of one user
EnergyLevels == {0, 2, 60}         \* energy of one frame
HoldChoices == {20, 40}            \* hold_ms / min_speech_ms handed in
SmoothChoices == {1, 4}            \* smooth handed to detect_speech_onset
\* Voice-over inputs, ms.
VoiceStarts == {0, 3000}
VoiceDurations == {0, 1000}
VoiceGaps == {0, 5000}
TranscriptDurations == {0, 10000}
SpeechOnsets == {0, 1000, 3000}
TtsLens == {500, 3000}
\* Lengths of a synthesized clip and of its window, ms.
ClipMsInputs ==
    {500 * k : k \in 0..60} \cup {9990, 10050, 10100, 10101, 10990, 11001}
TargetMsInputs == {0, 5000, 10000}
\* Tempo ratios, as fractions.
RatioInputs ==
    {<<n, 10000>> : n \in {1, 2, 1250, 2499, 2500, 4999, 5000, 5001, 9524,
                           10000, 15000, 19999, 20000, 20001, 20002, 40000,
                           40001, 40002, 40003, 80001}}
        \cup {<<20, 21>>, <<1, 3>>, <<10, 3>>, <<100, 7>>}

(***************************************************************************)
(* Generic helpers.                                                        *)
(***************************************************************************)
Max(a, b) == IF a >= b THEN a ELSE b
Min(a, b) == IF a <= b THEN a ELSE b

RECURSIVE SumSeq(_)
SumSeq(s) == IF s = <<>> THEN 0 ELSE Head(s) + SumSeq(Tail(s))

\* Python's round() of the non-negative quotient n / d: half to even.
PyRound(n, d) ==
    LET q == n \div d
        r == n % d
    IN  IF 2 * r < d THEN q
        ELSE IF 2 * r > d THEN q + 1
        ELSE IF q % 2 = 0 THEN q ELSE q + 1

(***************************************************************************)
(* segment_by_silence                                                      *)
(***************************************************************************)
min_pause_ms == 950
keep_silence_ms == 350
min_segment_ms == 5000
max_segment_ms == 22000
nonsilent_min_silence_len == 200
min_tts_ms == 1200
ms_per_word == 430
max_merge_rounds == 6

\* pydub.silence.detect_silence: the silent runs at least min_len long.
detect_silence(runs, min_len) ==
    SelectSeq(runs, LAMBDA r : r[2] - r[1] >= min_len)

\* pydub.silence.detect_nonsilent: the complement of detect_silence.
RECURSIVE Complement(_, _, _)
Complement(sil, prev_end, len) ==
    IF sil = <<>>
    THEN IF prev_end # len THEN << <<prev_end, len>> >> ELSE <<>>
    ELSE << <<prev_end, Head(sil)[1]>> >>
         \o Complement(Tail(sil), Head(sil)[2], len)

detect_nonsilent(runs, len, min_len) ==
    LET sil == detect_silence(runs, min_len)
    IN  IF sil = <<>> THEN << <<0, len>> >>
        ELSE IF sil[1][1] = 0 /\ sil[1][2] = len THEN <<>>
        ELSE LET ns == Complement(sil, 0, len)
             IN  IF ns[1] = <<0, 0>> THEN Tail(ns) ELSE ns

\* Lines 56-69: windows between the long pauses, keeping pad ms of each pause.
RECURSIVE PauseWindows(_, _, _, _)
PauseWindows(pauses, cursor, len, acc) ==
    LET pad == keep_silence_ms \div 2
    IN  IF pauses = <<>>
        THEN IF cursor < len THEN Append(acc, <<cursor, len>>) ELSE acc
        ELSE LET seg_end == Max(cursor, Head(pauses)[1] + pad)
                 acc2 == IF seg_end - cursor > 0
                         THEN Append(acc, <<cursor, seg_end>>) ELSE acc
             IN  PauseWindows(Tail(pauses),
                              Max(seg_end, Head(pauses)[2] - pad), len, acc2)

BuildSegmentsMs(pauses, len) ==
    SelectSeq(PauseWindows(pauses, 0, len, <<>>), LAMBDA w : w[2] - w[1] > 0)

\* Lines 81-101: merge short windows so that a window lasts min_segment_ms.
RECURSIVE MergeLoop(_, _, _, _)
MergeLoop(ws, acc_start, acc_end, out) ==
    IF ws = <<>> THEN Append(out, <<acc_start, acc_end>>)
    ELSE LET start == Head(ws)[1]
             end == Head(ws)[2]
         IN  IF acc_end - acc_start < min_segment_ms
             THEN MergeLoop(Tail(ws), acc_start, end, out)
             ELSE IF end - start < min_segment_ms
             THEN MergeLoop(Tail(ws), acc_start, end, out)
             ELSE MergeLoop(Tail(ws), start, end,
                            Append(out, <<acc_start, acc_end>>))

MergeShortSegments(ws) ==
    LET m == IF ws = <<>> THEN <<>>
             ELSE MergeLoop(Tail(ws), Head(ws)[1], Head(ws)[2], <<>>)
        n == Len(m)
    IN  IF n > 1 /\ m[n][2] - m[n][1] < min_segment_ms
        THEN [i \in 1..(n - 1) |->
                 IF i = n - 1 THEN <<m[i][1], m[n][2]>> ELSE m[i]]
        ELSE m

\* Lines 104-116: split a window longer than max_segment_ms in equal parts.
SplitWindow(w) ==
    LET start == w[1]
        duration == w[2] - w[1]
    IN  IF duration <= max_segment_ms \/ duration <= min_segment_ms * 2
        THEN << w >>
        ELSE LET parts == Max(1, PyRound(duration, max_segment_ms))
             IN  [i \in 1..parts |->
                     << start + ((i - 1) * duration) \div parts,
                        start + (i * duration) \div parts >>]

RECURSIVE BoundSegments(_)
BoundSegments(ws) ==
    IF ws = <<>> THEN <<>>
    ELSE SplitWindow(Head(ws)) \o BoundSegments(Tail(ws))

\* Lines 142-147.
RECURSIVE speech_duration_ms(_, _, _)
speech_duration_ms(ranges, seg_start, seg_end) ==
    IF ranges = <<>> THEN 0
    ELSE Max(0, Min(seg_end, Head(ranges)[2]) - Max(seg_start, Head(ranges)[1]))
         + speech_duration_ms(Tail(ranges), seg_start, seg_end)

\* Lines 149-154; words is len(text.split()).
estimate_tts_ms(words) ==
    IF words = 0 THEN 0 ELSE Max(min_tts_ms, words * ms_per_word)

\* Number of words of a text given as a sequence of sentence indices.
RECURSIVE TextWords(_, _)
TextWords(text, sents) ==
    IF text = <<>> THEN 0 ELSE sents[Head(text)] + TextWords(Tail(text), sents)

\* Lines 161-164.
WindowWeight(w, ranges) ==
    Max(speech_duration_ms(ranges, w[1], w[2]), ((w[2] - w[1]) * 6) \div 10)

\* A window that packs up to its word budget whatever is left for the
\* windows after it.
RECURSIVE PickCountGreedy(_, _, _, _, _, _)
PickCountGreedy(data, sents, picked, picked_words, target_words, remaining_segments) ==
    IF data = <<>> THEN picked
    ELSE IF picked > 0 /\ picked_words + sents[Head(data)] > target_words
    THEN picked
    ELSE PickCountGreedy(Tail(data), sents, picked + 1,
                         picked_words + sents[Head(data)], target_words,
                         remaining_segments)

\* Lines 184-193: how many sentences of data the window picks.
RECURSIVE PickCount(_, _, _, _, _, _)
PickCount(data, sents, picked, picked_words, target_words, remaining_segments) ==
    IF data = <<>> THEN picked
    ELSE IF Len(data) <= remaining_segments - 1 /\ picked > 0 THEN picked
    ELSE IF picked > 0 /\ picked_words + sents[Head(data)] > target_words
    THEN picked
    ELSE PickCount(Tail(data), sents, picked + 1,
                   picked_words + sents[Head(data)], target_words,
                   remaining_segments)

\* A last window that takes one sentence like every other window.
LastWindowPickOne(data) == 1

\* The flush of the last window, line 175: it takes everything left.
LastWindowPick(data) == Len(data)

\* Lines 168-207, from window idx on (idx is 1-based here).
RECURSIVE DistributeFrom(_, _, _, _, _, _, _)
DistributeFrom(windows, weights, sents, idx, data, total_words, out) ==
    IF idx > Len(windows) \/ data = <<>> THEN out
    ELSE LET remaining_segments == Len(windows) - idx + 1
             rest == SumSeq(SubSeq(weights, idx, Len(weights)))
             remaining_weight == IF rest = 0 THEN 1 ELSE rest
             target_words ==
                 Max(1, PyRound(total_words * weights[idx], remaining_weight))
             n0 == IF remaining_segments = 1 THEN LastWindowPick(data)
                   ELSE PickCount(data, sents, 0, 0, target_words,
                                  remaining_segments)
             n == IF n0 = 0 THEN 1 ELSE n0
             picked == SubSeq(data, 1, n)
             seg == [id |-> Len(out),
                     start |-> windows[idx][1],
                     end |-> windows[idx][2],
                     text |-> picked,
                     duration_ms |-> windows[idx][2] - windows[idx][1]]
         IN  DistributeFrom(windows, weights, sents, idx + 1,
                            SubSeq(data, n + 1, Len(data)),
                            total_words - TextWords(picked, sents),
                            Append(out, seg))

distribute_text(windows, sents, ranges) ==
    DistributeFrom(windows,
                   [i \in 1..Len(windows) |-> WindowWeight(windows[i], ranges)],
                   sents, 1, [i \in 1..Len(sents) |-> i], SumSeq(sents), <<>>)

\* Lines 217-221: the first non-final segment whose text does not fit, or 0.
ViolationIdx(segs, sents) ==
    LET bad == {i \in 1..(Len(segs) - 1) :
                   estimate_tts_ms(TextWords(segs[i].text, sents))
                       > segs[i].duration_ms}
    IN  IF bad = {} THEN 0 ELSE CHOOSE i \in bad : \A j \in bad : i <= j

\* MergeWindows without the pop of the absorbed neighbour.
MergeWindowsKeepNeighbour(ws, v) ==
    [ws EXCEPT ![v] = <<ws[v][1], ws[v + 1][2]>>]

\* Lines 227-228: widen window v with its right neighbour.
MergeWindows(ws, v) ==
    [i \in 1..(Len(ws) - 1) |->
        IF i < v THEN ws[i]
        ELSE IF i = v THEN <<ws[v][1], ws[v + 1][2]>>
        ELSE ws[i + 1]]

\* Lines 48-53, 73-78, 121-126: the whole clip as one segment.
\* full_text.strip() keeps every sentence unit of the text.
WholeClip(len, sents) ==
    << [id |-> 0, start |-> 0, end |-> len,
        text |-> [i \in 1..Len(sents) |-> i]] >>

\* Lines 231-232.
StripDuration(segs) ==
    [i \in 1..Len(segs) |->
        [id |-> segs[i].id, start |-> segs[i].start, end |-> segs[i].end,
         text |-> segs[i].text]]

\* The silent runs of a clip made of speech blocks sp separated by runs si.
RECURSIVE BlockStart(_, _, _)
BlockStart(sp, si, i) ==
    IF i = 1 THEN 0 ELSE BlockStart(sp, si, i - 1) + sp[i - 1] + si[i - 1]

ClipSilences(sp, si) ==
    [i \in 1..(Len(sp) - 1) |->
        << BlockStart(sp, si, i) + sp[i], BlockStart(sp, si, i + 1) >>]

ClipLen(sp, si) == BlockStart(sp, si, Len(sp)) + sp[Len(sp)]

SeqsUpTo(S, n) == UNION {[1..k -> S] : k \in 0..n}

InitSeg ==
    /\ seg_pc = "start"
    /\ \E n \in 1..MaxBlocks :
         \E sp \in [1..n -> SpeechLens], si \in [1..(n - 1) -> SilenceLens] :
            /\ audio_len = ClipLen(sp, si)
            /\ silences = ClipSilences(sp, si)
    /\ sentences \in SeqsUpTo(WordCounts, MaxSentences)
    /\ segments_ms = <<>>
    /\ merged_segments = <<>>
    /\ safety_counter = 0
    /\ whisper_segments = <<>>

\* Lines 29-78.
FindPauses ==
    /\ UNCHANGED notSegVars
    /\ seg_pc = "start"
    /\ LET long_pauses == detect_silence(silences, min_pause_ms)
           ws == BuildSegmentsMs(long_pauses, audio_len)
       IN  IF long_pauses = <<>> \/ Len(ws) < 3
           THEN /\ whisper_segments' = WholeClip(audio_len, sentences)
                /\ seg_pc' = "done"
                /\ UNCHANGED segments_ms
           ELSE /\ segments_ms' = ws
                /\ seg_pc' = "merge"
                /\ UNCHANGED whisper_segments
    /\ UNCHANGED <<audio_len, silences, sentences, merged_segments,
                   safety_counter>>

\* Lines 80-101.
MergeShort ==
    /\ UNCHANGED notSegVars
    /\ seg_pc = "merge"
    /\ merged_segments' = MergeShortSegments(segments_ms)
    /\ seg_pc' = "bound"
    /\ UNCHANGED <<audio_len, silences, sentences, segments_ms,
                   safety_counter, whisper_segments>>

\* Lines 103-126.
BoundLong ==
    /\ UNCHANGED notSegVars
    /\ seg_pc = "bound"
    /\ LET ws == BoundSegments(merged_segments)
       IN  /\ segments_ms' = ws
           /\ IF Len(ws) < 3
              THEN /\ whisper_segments' = WholeClip(audio_len, sentences)
                   /\ seg_pc' = "done"
              ELSE /\ seg_pc' = "loop"
                   /\ UNCHANGED whisper_segments
    /\ UNCHANGED <<audio_len, silences, sentences, merged_segments,
                   safety_counter>>

\* Lines 213-234: one round of the merging loop.
DistributeRound ==
    /\ UNCHANGED notSegVars
    /\ seg_pc = "loop"
    /\ LET ranges == detect_nonsilent(silences, audio_len,
                                      nonsilent_min_silence_len)
           segs == distribute_text(segments_ms, sentences, ranges)
           v == ViolationIdx(segs, sentences)
       IN  /\ safety_counter' = safety_counter + 1
           /\ IF v = 0 \/ Len(segments_ms) = 1
                 \/ safety_counter + 1 > max_merge_rounds
              THEN /\ whisper_segments' = StripDuration(segs)
                   /\ seg_pc' = "done"
                   /\ UNCHANGED segments_ms
              ELSE /\ segments_ms' = MergeWindows(segments_ms, v)
                   /\ whisper_segments' = segs
                   /\ UNCHANGED seg_pc
    /\ UNCHANGED <<audio_len, silences, sentences, merged_segments>>

IdleSeg ==
    /\ seg_pc = "idle"
    /\ audio_len = 0
    /\ silences = <<>>
    /\ sentences = <<>>
    /\ segments_ms = <<>>
    /\ merged_segments = <<>>
    /\ safety_counter = 0
    /\ whisper_segments = <<>>

(***************************************************************************)
(* assign_text_to_pauses                                                   *)
(***************************************************************************)
\* Line 117.
Stops(pauses, total) == <<0>> \o pauses \o <<total>>

\* Lines 120-132: fewer windows than sentences, one segment per sentence.
AssignSequential(sents, stops) ==
    [k \in 1..Len(sents) |->
        [id |-> k - 1,
         start |-> stops[Min(k - 1, Len(stops) - 2) + 1],
         end |-> stops[Min(k, Len(stops) - 1) + 1],
         text |-> <<k>>]]

\* Lines 135-153: one window per sentence until the sentences run out.
AssignWindows(sents, stops) ==
    [k \in 1..Min(Len(stops) - 1, Len(sents)) |->
        [id |-> k - 1, start |-> stops[k], end |-> stops[k + 1],
         text |-> <<k>>]]

assign_text_to_pauses(sents, pauses, total) ==
    LET stops == Stops(pauses, total)
    IN  IF Len(stops) - 1 < Len(sents)
        THEN AssignSequential(sents, stops)
        ELSE AssignWindows(sents, stops)

Increasing(s) == \A i \in 1..(Len(s) - 1) : s[i] < s[i + 1]

InitAssign ==
    /\ at_pc = "call"
    /\ at_sentences \in SeqsUpTo(WordCounts, MaxSentences)
    /\ at_pauses \in {p \in SeqsUpTo(PauseGrid, MaxPauses) : Increasing(p)}
    /\ total_ms \in {t \in ClipLens :
                        \A i \in 1..Len(at_pauses) : at_pauses[i] <= t}
    /\ at_segments = <<>>

AssignText ==
    /\ UNCHANGED notAssignVars
    /\ at_pc = "call"
    /\ at_segments' = assign_text_to_pauses(at_sentences, at_pauses, total_ms)
    /\ at_pc' = "done"
    /\ UNCHANGED <<at_sentences, at_pauses, total_ms>>

IdleAssign ==
    /\ at_pc = "idle"
    /\ at_sentences = <<>>
    /\ at_pauses = <<>>
    /\ total_ms = 0
    /\ at_segments = <<>>

(***************************************************************************)
(* split_into_chunks                                                       *)
(* A text is a sequence of one-character strings.                          *)
(***************************************************************************)
MAX_CHARS == 260
MAX_DURATION_MS == 15000
CHUNK_CHAR_CEILING == 350

Rep(c, n) == [i \in 1..n |-> c]

\* str.strip() for the space character.
RECURSIVE LStrip(_)
LStrip(t) == IF t # <<>> /\ Head(t) = " " THEN LStrip(Tail(t)) ELSE t

RECURSIVE RStrip(_)
RStrip(t) ==
    IF t # <<>> /\ t[Len(t)] = " " THEN RStrip(SubSeq(t, 1, Len(t) - 1)) ELSE t

Strip(t) == LStrip(RStrip(t))

\* Lines 12-25 (leading_silence and the starts in ms).
compute_global_offset(segs, lead) ==
    IF segs = <<>> THEN 0 ELSE Max(lead - segs[1].start, 0)

\* Lines 28-29.
apply_offset(value, offset) == Max(value + offset, 0)

\* Lines 43-48: the chunk written to chunk_NNN.json.
save_chunk(c, offset) ==
    [start |-> apply_offset(c[1], offset),
     end |-> apply_offset(c[2], offset),
     text |-> Strip(c[3])]

\* Lines 83-86: the running chunk is closed before this segment is added.
ClosesChunk(cur_text, cur_start, seg) ==
    \/ Len(cur_text) + Len(seg.dst) > MAX_CHARS
    \/ seg.end - cur_start > MAX_DURATION_MS

\* A chunker that forgets the text of the segment that opens a new chunk.
TextAfterDropsOpener(cur_text, seg, closes) ==
    IF closes THEN <<>> ELSE cur_text \o seg.dst \o <<" ">>

\* Lines 88 and 91: the running text after the segment.
TextAfter(cur_text, seg, closes) ==
    (IF closes THEN <<>> ELSE cur_text) \o seg.dst \o <<" ">>

\* A validation without the character ceiling.
AssertValidChunksNoCeiling(files) ==
    IF files = <<>> THEN "ChunkValidationError: no chunks saved"
    ELSE LET bad(c) ==
                 IF Strip(c.text) = <<>> THEN "ChunkValidationError: empty text"
                 ELSE IF c.end - c.start <= 0
                 THEN "ChunkValidationError: invalid time range"
                 ELSE "none"
             failing == {i \in 1..Len(files) : bad(files[i]) # "none"}
         IN  IF failing = {} THEN "none"
             ELSE bad(files[CHOOSE i \in failing : \A j \in failing : i <= j])

\* helpers/validators.py, assert_valid_chunks: the error it raises, or "none".
assert_valid_chunks(files) ==
    IF files = <<>> THEN "ChunkValidationError: no chunks saved"
    ELSE LET bad(c) ==
                 IF Strip(c.text) = <<>> THEN "ChunkValidationError: empty text"
                 ELSE IF c.end - c.start <= 0
                 THEN "ChunkValidationError: invalid time range"
                 ELSE IF Len(Strip(c.text)) > CHUNK_CHAR_CEILING
                 THEN "ChunkValidationError: too many characters"
                 ELSE "none"
             failing == {i \in 1..Len(files) : bad(files[i]) # "none"}
         IN  IF failing = {} THEN "none"
             ELSE bad(files[CHOOSE i \in failing : \A j \in failing : i <= j])

\* The text of segment k is written with the k-th letter.
Letters == <<"a", "b", "c", "d", "e", "f", "g", "h">>

DstTexts(k) ==
    {Rep(Letters[k], n) : n \in TextLens}
        \cup {Rep(Letters[k], 2) \o <<" ">> \o Rep(Letters[k], 2)}

\* Segments as the allocator leaves them: consecutive, each lasting d[k].
RECURSIVE SegStart(_, _)
SegStart(d, k) == IF k = 1 THEN 0 ELSE SegStart(d, k - 1) + d[k - 1]

InitChunks ==
    /\ ck_pc = "load"
    /\ \E n \in 0..MaxSegments :
         \E d \in [1..n -> SegDurations] :
            \E t \in [1..n -> UNION {DstTexts(k) : k \in 1..n}] :
               /\ \A k \in 1..n : t[k] \in DstTexts(k)
               /\ ck_segments = [k \in 1..n |->
                                   [start |-> SegStart(d, k),
                                    end |-> SegStart(d, k) + d[k],
                                    dst |-> t[k]]]
    /\ leading_silence \in LeadingSilences
    /\ ck_i = 0
    /\ chunks = <<>>
    /\ current_text = <<>>
    /\ current_start = 0
    /\ current_end = 0
    /\ saved_chunks = <<>>
    /\ ck_error = "none"

\* Lines 60-77.
LoadSegments ==
    /\ UNCHANGED notChunkVars
    /\ ck_pc = "load"
    /\ IF ck_segments = <<>>
       THEN /\ ck_pc' = "done"
            /\ UNCHANGED <<ck_i, current_start, current_end>>
       ELSE /\ ck_pc' = "loop"
            /\ ck_i' = 1
            /\ current_start' = ck_segments[1].start
            /\ current_end' = ck_segments[1].end
    /\ UNCHANGED <<ck_segments, leading_silence, chunks, current_text,
                   saved_chunks, ck_error>>

\* Lines 79-92: one pass of the loop over the segments.
ChunkStep ==
    /\ UNCHANGED notChunkVars
    /\ ck_pc = "loop"
    /\ ck_i <= Len(ck_segments)
    /\ LET seg == ck_segments[ck_i]
           closes == ClosesChunk(current_text, current_start, seg)
       IN  /\ chunks' = IF closes
                        THEN Append(chunks, <<current_start, current_end,
                                              current_text>>)
                        ELSE chunks
           /\ current_start' = IF closes THEN seg.start ELSE current_start
           /\ current_text' = TextAfter(current_text, seg, closes)
           /\ current_end' = seg.end
    /\ ck_i' = ck_i + 1
    /\ UNCHANGED <<ck_pc, ck_segments, leading_silence, saved_chunks,
                   ck_error>>

\* Lines 94-102: the last chunk, the chunk files and their validation.
FinishChunks ==
    /\ UNCHANGED notChunkVars
    /\ ck_pc = "loop"
    /\ ck_i > Len(ck_segments)
    /\ LET all == Append(chunks, <<current_start, current_end, current_text>>)
           offset == compute_global_offset(ck_segments, leading_silence)
           files == [i \in 1..Len(all) |-> save_chunk(all[i], offset)]
           err == assert_valid_chunks(files)
       IN  /\ chunks' = all
           /\ saved_chunks' = files
           /\ ck_error' = err
           /\ ck_pc' = IF err = "none" THEN "done" ELSE "failed"
    /\ UNCHANGED <<ck_segments, leading_silence, ck_i, current_text,
                   current_start, current_end>>

IdleChunks ==
    /\ ck_pc = "idle"
    /\ ck_segments = <<>>
    /\ leading_silence = 0
    /\ ck_i = 0
    /\ chunks = <<>>
    /\ current_text = <<>>
    /\ current_start = 0
    /\ current_end = 0
    /\ saved_chunks = <<>>
    /\ ck_error = "none"

(***************************************************************************)
(* merge_audio                                                             *)
(***************************************************************************)
MICRO_GAP_MS == 50

\* Lines 15-24: the length of the silent wav written for `pause` ms.  The
\* code writes int(16000 * seconds) frames, which is the pause itself up to
\* one frame (1/16 ms) of float truncation.
create_silence(pause) == Max(pause, 0)

\* A gap that is applied whatever its sign or size.
GapAfterUnguarded(cs, i) ==
    IF i < Len(cs) THEN cs[i + 1].start - cs[i].end ELSE 0

\* Lines 62-73: the silence that follows clip i in the list, 0 for none.
GapAfter(cs, i) ==
    IF i < Len(cs) /\ cs[i + 1].start - cs[i].end > MICRO_GAP_MS
    THEN create_silence(cs[i + 1].start - cs[i].end)
    ELSE 0

\* Lines 50-73: what one pass of the loop writes to concat_list.txt.
ListEntries(cs, clips, i) ==
    << [kind |-> "clip", len |-> clips[i]] >>
    \o (IF GapAfter(cs, i) # 0
        THEN << [kind |-> "silence", len |-> GapAfter(cs, i)] >>
        ELSE <<>>)

\* Lines 77-89: ffmpeg's concat demuxer plays the listed files one after
\* the other; the result is the place of every clip.
RECURSIVE ConcatFrom(_, _, _)
ConcatFrom(list, pos, out) ==
    IF list = <<>> THEN out
    ELSE ConcatFrom(Tail(list), pos + Head(list).len,
                    IF Head(list).kind = "clip"
                    THEN Append(out, [start_ms |-> pos,
                                      end_ms |-> pos + Head(list).len])
                    ELSE out)

ConcatPlacements(list) == ConcatFrom(list, 0, <<>>)

InitMerge ==
    /\ mg_pc = "start"
    /\ \E n \in 0..MaxChunks :
         /\ mg_chunks \in [1..n -> {c \in [start : ChunkTimes, end : ChunkTimes] :
                                      c.start < c.end}]
         /\ mg_clips \in [1..n -> FixedClipLens]
    /\ mg_i = 0
    /\ concat_list = <<>>
    /\ placements = <<>>

\* Lines 27-47: without clips or chunk files nothing is merged.
StartMerge ==
    /\ UNCHANGED notMergeVars
    /\ mg_pc = "start"
    /\ IF mg_clips = <<>> \/ mg_chunks = <<>>
       THEN mg_pc' = "done" /\ UNCHANGED mg_i
       ELSE mg_pc' = "list" /\ mg_i' = 1
    /\ UNCHANGED <<mg_chunks, mg_clips, concat_list, placements>>

\* Lines 50-73: one pass of the loop over the chunk files.
ListStep ==
    /\ UNCHANGED notMergeVars
    /\ mg_pc = "list"
    /\ mg_i <= Len(mg_chunks)
    /\ concat_list' = concat_list \o ListEntries(mg_chunks, mg_clips, mg_i)
    /\ mg_i' = mg_i + 1
    /\ UNCHANGED <<mg_pc, mg_chunks, mg_clips, placements>>

\* Lines 75-90.
RunConcat ==
    /\ UNCHANGED notMergeVars
    /\ mg_pc = "list"
    /\ mg_i > Len(mg_chunks)
    /\ placements' = ConcatPlacements(concat_list)
    /\ mg_pc' = "done"
    /\ UNCHANGED <<mg_chunks, mg_clips, mg_i, concat_list>>

IdleMerge ==
    /\ mg_pc = "idle"
    /\ mg_chunks = <<>>
    /\ mg_clips = <<>>
    /\ mg_i = 0
    /\ concat_list = <<>>
    /\ placements = <<>>

(***************************************************************************)
(* Tempo chains.  A ratio or a stage is a fraction <<num, den>>.           *)
(***************************************************************************)
RECURSIVE Gcd(_, _)
Gcd(a, b) == IF b = 0 THEN a ELSE Gcd(b, a % b)

Reduce(q) == LET g == Gcd(q[1], q[2]) IN <<q[1] \div g, q[2] \div g>>

RatLess(a, b) == a[1] * b[2] < b[1] * a[2]

ATEMPO_MIN == <<1, 2>>
ATEMPO_MAX == <<2, 1>>
ATEMPO_DIGITS_UNIT == 10000

\* f"{temp_ratio:.4f}": the ratio rounded to 4 decimals.  The ratio is a
\* binary float, so a decimal tie falls to either side.
Format4(q) ==
    LET n == q[1] * ATEMPO_DIGITS_UNIT
        lo == n \div q[2]
        r == n % q[2]
    IN  IF 2 * r < q[2] THEN {<<lo, ATEMPO_DIGITS_UNIT>>}
        ELSE IF 2 * r > q[2] THEN {<<lo + 1, ATEMPO_DIGITS_UNIT>>}
        ELSE {<<lo, ATEMPO_DIGITS_UNIT>>, <<lo + 1, ATEMPO_DIGITS_UNIT>>}

\* A last stage cut to 4 decimals instead of rounded.
LastStageTruncated(q) == {<<(q[1] * ATEMPO_DIGITS_UNIT) \div q[2],
                            ATEMPO_DIGITS_UNIT>>}

\* voice_over_tts.py line 134: the last stage of the chain.
LastStage(q) == Format4(q)

\* A loop that stops one halving or doubling too early.
NeedsStageLoose(q) == RatLess(q, <<1, 4>>) \/ RatLess(<<4, 1>>, q)

\* voice_over_tts.py line 126 and stretch_audio.py line 51.
NeedsStage(q) == RatLess(q, ATEMPO_MIN) \/ RatLess(ATEMPO_MAX, q)

\* voice_over_tts.py lines 124-135: the chains build_atempo_chain can return.
RECURSIVE AtempoFrom(_, _)
AtempoFrom(temp_ratio, acc) ==
    IF NeedsStage(temp_ratio)
    THEN IF RatLess(temp_ratio, ATEMPO_MIN)
         THEN AtempoFrom(<<temp_ratio[1] * 2, temp_ratio[2]>>,
                         Append(acc, ATEMPO_MIN))
         ELSE AtempoFrom(<<temp_ratio[1], temp_ratio[2] * 2>>,
                         Append(acc, ATEMPO_MAX))
    ELSE {Append(acc, f) : f \in LastStage(temp_ratio)}

build_atempo_chain(ratio) == AtempoFrom(ratio, <<>>)

RECURSIVE RatProd(_)
RatProd(stages) ==
    IF stages = <<>> THEN <<1, 1>>
    ELSE LET h == Reduce(Head(stages))
             t == RatProd(Tail(stages))
         IN  Reduce(<<h[1] * t[1], h[2] * t[2]>>)

InitAtempo ==
    /\ ac_pc = "call"
    /\ ac_ratio \in RatioInputs \cup {<<0, 1>>}
    /\ filters = <<>>

\* voice_over_tts.py lines 120-135.
BuildChain ==
    /\ UNCHANGED notTempoVars
    /\ ac_pc = "call"
    /\ IF ac_ratio[1] <= 0
       THEN ac_pc' = "failed" /\ UNCHANGED filters
       ELSE /\ ac_pc' = "done"
            /\ filters' \in build_atempo_chain(ac_ratio)
    /\ UNCHANGED <<ac_ratio, fs_pc, fs_factor, remaining, fs_current,
                   fs_calls>>

IdleAtempo ==
    /\ ac_pc = "idle"
    /\ ac_ratio = <<1, 1>>
    /\ filters = <<>>

\* stretch_audio.py line 52.
StretchStepTempo(q) == IF RatLess(<<1, 1>>, q) THEN ATEMPO_MAX ELSE ATEMPO_MIN

InitStretch ==
    /\ fs_pc = "loop"
    /\ fs_factor \in RatioInputs
    /\ remaining = fs_factor
    /\ fs_current = "input"
    /\ fs_calls = <<>>

\* stretch_audio.py lines 51-58: one intermediate stage; ffmpeg may fail,
\* and ffmpeg_apply then raises.
StretchStep ==
    /\ UNCHANGED notTempoVars
    /\ fs_pc = "loop"
    /\ NeedsStage(remaining)
    /\ LET step == StretchStepTempo(remaining)
       IN  /\ fs_calls' = Append(fs_calls, [input |-> fs_current,
                                            output |-> "output.tmp.wav",
                                            tempo |-> step])
           /\ \E ok \in BOOLEAN :
                IF ok
                THEN /\ remaining' = Reduce(<<remaining[1] * step[2],
                                              remaining[2] * step[1]>>)
                     /\ fs_current' = "output.tmp.wav"
                     /\ UNCHANGED fs_pc
                ELSE /\ fs_pc' = "failed"
                     /\ UNCHANGED <<remaining, fs_current>>
    /\ UNCHANGED <<ac_pc, ac_ratio, filters, fs_factor>>

\* stretch_audio.py lines 60-66: the last stage.
StretchFinal ==
    /\ UNCHANGED notTempoVars
    /\ fs_pc = "loop"
    /\ ~NeedsStage(remaining)
    /\ fs_calls' = Append(fs_calls, [input |-> fs_current,
                                     output |-> "output",
                                     tempo |-> remaining])
    /\ \E ok \in BOOLEAN : fs_pc' = IF ok THEN "done" ELSE "failed"
    /\ UNCHANGED <<ac_pc, ac_ratio, filters, fs_factor, remaining,
                   fs_current>>

IdleStretch ==
    /\ fs_pc = "idle"
    /\ fs_factor = <<1, 1>>
    /\ remaining = <<1, 1>>
    /\ fs_current = "input"
    /\ fs_calls = <<>>

(***************************************************************************)
(* fit_tts_into_segment.  An audio is a sequence of runs: "tts" is the     *)
(* first len ms of the synthesized clip as it was, "silence" is len ms of  *)
(* silence, "tempo" is the clip re-timed by ffmpeg.                        *)
(***************************************************************************)
MAX_COMPRESSION_PCT == 110
NEAR_PERFECT_PCT == 101

RECURSIVE AudioLen(_)
AudioLen(a) == IF a = <<>> THEN 0 ELSE Head(a).len + AudioLen(Tail(a))

ClipAudio(n) == IF n = 0 THEN <<>> ELSE << [kind |-> "tts", len |-> n] >>

\* AudioSegment.silent(duration=n).
Silent(n) == IF n = 0 THEN <<>> ELSE << [kind |-> "silence", len |-> n] >>

\* audio[:t]
RECURSIVE Slice(_, _)
Slice(a, t) ==
    IF a = <<>> \/ t <= 0 THEN <<>>
    ELSE IF Head(a).len <= t
    THEN <<Head(a)>> \o Slice(Tail(a), t - Head(a).len)
    ELSE << [Head(a) EXCEPT !.len = t] >>

\* A pad that forgets the clip.
PadTrailingOnlySilence(a, target) == Silent(target)

\* Line 183.
PadTrailing(a, target) == a \o Silent(target - AudioLen(a))

\* A trim that keeps the whole clip.
HardTrimKeepsAll(a, target) == a

\* Line 190.
HardTrim(a, target) == Slice(a, target)

\* A tolerance of 25% instead of 10%.
TooLongAbove25(current, target) == current * 100 > 125 * target

\* Line 188: ratio > MAX_COMPRESSION.
TooLong(current, target) == current * 100 > MAX_COMPRESSION_PCT * target

\* Line 193: ratio > 1.01.
SlightlyLong(current, target) == current * 100 > NEAR_PERFECT_PCT * target

\* Lines 138-173: the clip after ffmpeg's atempo chain, whose output lasts
\* the input length divided by the product of the stages.
stretch_with_ffmpeg(a, chain) ==
    LET p == RatProd(chain)
    IN  << [kind |-> "tempo", len |-> (AudioLen(a) * p[2]) \div p[1]] >>

InitFit ==
    /\ fit_pc = "call"
    /\ clip_ms \in ClipMsInputs
    /\ target_ms \in TargetMsInputs
    /\ fitted = <<>>
    /\ fit_branch = "none"
    /\ fit_warning = FALSE
    /\ fit_error = "none"

\* Lines 178-204.
FitClip ==
    /\ UNCHANGED notFitVars
    /\ fit_pc = "call"
    /\ LET audio == ClipAudio(clip_ms)
       IN  IF clip_ms < target_ms
           THEN /\ fitted' = PadTrailing(audio, target_ms)
                /\ fit_branch' = "pad"
                /\ fit_pc' = "done"
                /\ UNCHANGED <<fit_warning, fit_error>>
           ELSE IF target_ms = 0
           THEN /\ fit_error' = "ZeroDivisionError"
                /\ fit_pc' = "failed"
                /\ UNCHANGED <<fitted, fit_branch, fit_warning>>
           ELSE IF TooLong(clip_ms, target_ms)
           THEN /\ fit_warning' = TRUE
                /\ fitted' = HardTrim(audio, target_ms)
                /\ fit_branch' = "hard_trim"
                /\ fit_pc' = "done"
                /\ UNCHANGED fit_error
           ELSE IF SlightlyLong(clip_ms, target_ms)
           THEN \E chain \in build_atempo_chain(<<target_ms, clip_ms>>),
                   ok \in BOOLEAN :
                   IF ok
                   THEN LET stretched == stretch_with_ffmpeg(audio, chain)
                        IN  /\ fitted' =
                                 IF AudioLen(stretched) < target_ms
                                 THEN PadTrailing(stretched, target_ms)
                                 ELSE stretched
                            /\ fit_branch' = "tempo"
                            /\ fit_pc' = "done"
                            /\ UNCHANGED <<fit_warning, fit_error>>
                   ELSE /\ fit_error' = "VoiceOverError"
                        /\ fit_pc' = "failed"
                        /\ UNCHANGED <<fitted, fit_branch, fit_warning>>
           ELSE /\ fitted' = Slice(audio, target_ms)
                /\ fit_branch' = "cut"
                /\ fit_pc' = "done"
                /\ UNCHANGED <<fit_warning, fit_error>>
    /\ UNCHANGED <<clip_ms, target_ms>>

IdleFit ==
    /\ fit_pc = "idle"
    /\ clip_ms = 0
    /\ target_ms = 0
    /\ fitted = <<>>
    /\ fit_branch = "none"
    /\ fit_warning = FALSE
    /\ fit_error = "none"

(***************************************************************************)
(* translate_segments and assert_valid_translation                         *)
(***************************************************************************)
\* Source texts: silence, blanks, speech.
SrcTexts == {<<>>, <<" ">>, Rep("s", 4)}

\* What the service may put in a dst.
DstChoices == {<<>>, Rep("d", 1), Rep("d", 4), <<" ">> \o Rep("d", 4),
               Rep("d", 13)}

\* An id that was not asked for (ids count from 0 or from 1).
UnknownId(ids) == Len(ids) + 1

Reversed(s) == [i \in 1..Len(s) |-> s[Len(s) + 1 - i]]

\* The ids a reply may carry for the ids asked: the same, one dropped, one
\* invented, one replaced, one repeated, or the same in another order.
ReplyIds(ids) ==
    {ids, Append(ids, UnknownId(ids)), Reversed(ids)}
        \cup (IF ids = <<>> THEN {}
              ELSE {SubSeq(ids, 1, Len(ids) - 1),
                    [ids EXCEPT ![1] = UnknownId(ids)],
                    [ids EXCEPT ![Len(ids)] = ids[1]]})

\* translate_chunks.py lines 35-36.
NonEmptySegments(segs) == SelectSeq(segs, LAMBDA s : Strip(s.text) # <<>>)

GptReplies(segs) ==
    LET asked == NonEmptySegments(segs)
        ids == [i \in 1..Len(asked) |-> asked[i].id]
    IN  {[kind |-> "invalid_json", segments |-> <<>>],
         [kind |-> "no_list", segments |-> <<>>]}
          \cup UNION {{[kind |-> "json",
                        segments |-> [i \in 1..Len(shape) |->
                                        [id |-> shape[i], dst |-> d[i]]]] :
                          d \in [1..Len(shape) -> DstChoices]} :
                      shape \in ReplyIds(ids)}

\* Line 91: the dictionary id -> dst; a later entry replaces an earlier one.
HasTranslation(reply, id) == \E i \in 1..Len(reply) : reply[i].id = id

TranslationOf(reply, id) ==
    LET at == {i \in 1..Len(reply) : reply[i].id = id}
    IN  reply[CHOOSE i \in at : \A j \in at : j <= i].dst

\* validators.py lines 114-121: a segment with speech in src and nothing in
\* dst is rejected.
EmptyTranslationRejected(src, dst) == src # <<>> /\ dst = <<>>

\* validators.py lines 99-134, one segment: the error raised, or "none".
TranslationFault(seg) ==
    LET src == Strip(seg.src)
        dst == Strip(seg.dst)
        denom == Max(1, Len(src))
    IN  IF src = <<>> THEN "none"
        ELSE IF EmptyTranslationRejected(src, dst)
        THEN "TranslationValidationError: empty translation"
        ELSE IF 2 * Len(dst) < denom
        THEN "TranslationValidationError: too short"
        ELSE IF Len(dst) > 3 * denom
        THEN "TranslationValidationError: too long"
        ELSE "none"

\* validators.py lines 76-137: the error raised, or "none".
assert_valid_translation(data) ==
    IF data = <<>> THEN "TranslationValidationError: not a segment list"
    ELSE LET failing == {i \in 1..Len(data) : TranslationFault(data[i]) # "none"}
         IN  IF failing = {} THEN "none"
             ELSE TranslationFault(
                      data[CHOOSE i \in failing : \A j \in failing : i <= j])

\* translate_chunks.py lines 75-88 and 112-114: the error the reply raises.
ReplyFault(segs, reply) ==
    IF reply.kind = "invalid_json" THEN "RuntimeError: invalid JSON"
    ELSE IF reply.kind = "no_list" THEN "RuntimeError: no segments list"
    ELSE IF Len(reply.segments) # Len(NonEmptySegments(segs))
    THEN "RuntimeError: lost segments"
    ELSE IF \E i \in 1..Len(segs) :
               /\ Strip(segs[i].text) # <<>>
               /\ ~HasTranslation(reply.segments, segs[i].id)
    THEN "RuntimeError: missing translation"
    ELSE "none"

\* translate_chunks.py lines 96-122.
TranslatedSegments(segs, reply) ==
    [i \in 1..Len(segs) |->
        [id |-> segs[i].id, start |-> segs[i].start, end |-> segs[i].end,
         src |-> segs[i].text,
         dst |-> IF Strip(segs[i].text) = <<>> THEN <<>>
                 ELSE IF HasTranslation(reply, segs[i].id)
                 THEN Strip(TranslationOf(reply, segs[i].id))
                 ELSE <<>>]]

NoReply == [kind |-> "none", segments |-> <<>>]

InitTranslate ==
    /\ tr_pc = "call"
    /\ \E n \in 0..MaxTranslated :
         \E t \in [1..n -> SrcTexts] :
            tr_segments = [k \in 1..n |->
                             [id |-> k - 1, start |-> (k - 1) * 1000,
                              end |-> k * 1000, text |-> t[k]]]
    /\ gpt_response = NoReply
    /\ translated_json = <<>>
    /\ tr_error = "none"

\* translate_chunks.py lines 24-70: the request and the service's reply.
CallGPT ==
    /\ UNCHANGED notTransVars
    /\ tr_pc = "call"
    /\ gpt_response' \in GptReplies(tr_segments)
    /\ tr_pc' = "parse"
    /\ UNCHANGED <<tr_segments, translated_json, tr_error, bt_pc, bt_segments,
                   translated_response, bt_result, bt_error>>

\* translate_chunks.py lines 75-152: reply checks, the merged list, the
\* file and its validation.
AssembleTranslation ==
    /\ UNCHANGED notTransVars
    /\ tr_pc = "parse"
    /\ LET fault == ReplyFault(tr_segments, gpt_response)
           out == TranslatedSegments(tr_segments, gpt_response.segments)
       IN  IF fault # "none"
           THEN /\ tr_error' = fault
                /\ tr_pc' = "failed"
                /\ UNCHANGED translated_json
           ELSE /\ translated_json' = out
                /\ tr_error' = assert_valid_translation(out)
                /\ tr_pc' = IF assert_valid_translation(out) = "none"
                            THEN "done" ELSE "failed"
    /\ UNCHANGED <<tr_segments, gpt_response, bt_pc, bt_segments,
                   translated_response, bt_result, bt_error>>

IdleTranslate ==
    /\ tr_pc = "idle"
    /\ tr_segments = <<>>
    /\ gpt_response = NoReply
    /\ translated_json = <<>>
    /\ tr_error = "none"

(***************************************************************************)
(* batch_translate_segments                                                *)
(***************************************************************************)
MAX_BATCH_SEGMENTS == 200

SubtitleTexts == {Rep("s", 2), Rep("s", 4)}

BatchTexts == {<<>>, Rep("d", 3), <<" ">> \o Rep("d", 3)}

\* The "[index] text" items the reply may hold for n numbered lines.
BatchReplies(n) ==
    {[kind |-> "error", items |-> <<>>]}
      \cup UNION {{[kind |-> "text",
                    items |-> [i \in 1..Len(shape) |->
                                 [index |-> shape[i], text |-> d[i]]]] :
                      d \in [1..Len(shape) -> BatchTexts]} :
                  shape \in ReplyIds([i \in 1..n |-> i])}

\* services/subtitles.py lines 171-179: the dictionary index -> text.
HasIndex(items, idx) == \E i \in 1..Len(items) : items[i].index = idx

TextOfIndex(items, idx) ==
    LET at == {i \in 1..Len(items) : items[i].index = idx}
    IN  Strip(items[CHOOSE i \in at : \A j \in at : j <= i].text)

\* services/subtitles.py lines 184-195.
BatchResult(segs, items) ==
    [i \in 1..Len(segs) |->
        [start |-> segs[i].start, end |-> segs[i].end,
         text |-> IF HasIndex(items, i) THEN TextOfIndex(items, i)
                  ELSE segs[i].text]]

NoBatchReply == [kind |-> "none", items |-> <<>>]

InitBatch ==
    /\ bt_pc = "call"
    /\ \E n \in 0..MaxTranslated :
         \E t \in [1..n -> SubtitleTexts] :
            bt_segments = [k \in 1..n |->
                             [start |-> (k - 1) * 1000, end |-> k * 1000,
                              text |-> t[k]]]
    /\ translated_response = NoBatchReply
    /\ bt_result = <<>>
    /\ bt_error = "none"

\* services/subtitles.py lines 132-169: the guards, the prompt, the reply.
BatchCall ==
    /\ UNCHANGED notTransVars
    /\ bt_pc = "call"
    /\ IF bt_segments = <<>>
       THEN /\ bt_pc' = "done"
            /\ UNCHANGED <<translated_response, bt_error>>
       ELSE IF Len(bt_segments) > MAX_BATCH_SEGMENTS
       THEN /\ bt_pc' = "failed"
            /\ bt_error' = "RuntimeError: too many segments"
            /\ UNCHANGED translated_response
       ELSE \E reply \in BatchReplies(Len(bt_segments)) :
              /\ translated_response' = reply
              /\ bt_pc' = IF reply.kind = "error" THEN "failed" ELSE "parse"
              /\ bt_error' = IF reply.kind = "error"
                             THEN "translation service error" ELSE bt_error
    /\ UNCHANGED <<tr_pc, tr_segments, gpt_response, translated_json,
                   tr_error, bt_segments, bt_result>>

\* services/subtitles.py lines 171-195: parsing and the returned list.
BatchParse ==
    /\ UNCHANGED notTransVars
    /\ bt_pc = "parse"
    /\ IF translated_response.items = <<>>
       THEN /\ bt_pc' = "failed"
            /\ bt_error' = "RuntimeError: empty result"
            /\ UNCHANGED bt_result
       ELSE /\ bt_result' = BatchResult(bt_segments, translated_response.items)
            /\ bt_pc' = "done"
            /\ UNCHANGED bt_error
    /\ UNCHANGED <<tr_pc, tr_segments, gpt_response, translated_json,
                   tr_error, bt_segments, translated_response>>

IdleBatch ==
    /\ bt_pc = "idle"
    /\ bt_segments = <<>>
    /\ translated_response = NoBatchReply
    /\ bt_result = <<>>
    /\ bt_error = "none"

(***************************************************************************)
(* clean_segments_with_gpt and VoiceActivityDetector.filter_segments.      *)
(* A text is a record: what it says, how many characters it has, and       *)
(* whether blanks surround it.                                             *)
(***************************************************************************)
CHUNK_CHAR_LIMIT == 6000

EmptyText == [body |-> "", chars |-> 0, pad |-> FALSE]
NoiseText == [body |-> "mmm", chars |-> 3, pad |-> FALSE]
SpeechText == [body |-> "speech", chars |-> 4000, pad |-> FALSE]
FixedText == [body |-> "fixed", chars |-> 3999, pad |-> TRUE]

TranscriptTexts == {EmptyText, NoiseText, SpeechText}

\* str.strip() on such a text.
StripText(t) == [t EXCEPT !.pad = FALSE]

\* gpt_cleaner.py lines 50-64, from segment i on.
RECURSIVE ChunkFrom(_, _, _, _, _)
ChunkFrom(segs, i, current, current_len, out) ==
    IF i > Len(segs)
    THEN IF current = <<>> THEN out ELSE Append(out, current)
    ELSE LET seg_len == segs[i].text.chars
         IN  IF current # <<>> /\ current_len + seg_len > CHUNK_CHAR_LIMIT
             THEN ChunkFrom(segs, i + 1, <<segs[i]>>, seg_len,
                            Append(out, current))
             ELSE ChunkFrom(segs, i + 1, Append(current, segs[i]),
                            current_len + seg_len, out)

_chunk_segments(segs) == ChunkFrom(segs, 1, <<>>, 0, <<>>)

\* What the cleaning service may return for one segment.
CleanedAs(seg) ==
    LET same == [id |-> seg.id, start |-> seg.start, end |-> seg.end,
                 has_text |-> TRUE, is_str |-> TRUE, text |-> seg.text]
    IN  {same,
         [same EXCEPT !.text = EmptyText],
         [same EXCEPT !.text = FixedText],
         [same EXCEPT !.id = seg.id + 1],
         [same EXCEPT !.start = seg.start + 1],
         [same EXCEPT !.end = seg.end + 1],
         [same EXCEPT !.has_text = FALSE],
         [same EXCEPT !.is_str = FALSE]}

\* The lists that answer a batch segment by segment.
RECURSIVE CleanedLists(_)
CleanedLists(chunk) ==
    IF chunk = <<>> THEN {<<>>}
    ELSE {<<c>> \o rest : c \in CleanedAs(Head(chunk)),
                          rest \in CleanedLists(Tail(chunk))}

CleanReplies(chunk) ==
    LET full == CleanedLists(chunk)
        first == Head(chunk)
        stray == [id |-> first.id, start |-> first.start, end |-> first.end,
                  has_text |-> TRUE, is_str |-> TRUE, text |-> NoiseText]
    IN  {[kind |-> "no_list", segments |-> <<>>]}
          \cup {[kind |-> "json", segments |-> r] : r \in full}
          \cup {[kind |-> "json", segments |-> SubSeq(r, 1, Len(r) - 1)] :
                   r \in full}
          \cup {[kind |-> "json", segments |-> Append(r, stray)] : r \in full}

\* A check that compares the timestamps but not the ids.
SegmentFaultNoIdCheck(original, cleaned) ==
    IF original.start # cleaned.start \/ original.end # cleaned.end
    THEN "RuntimeError: changed timestamps"
    ELSE IF ~cleaned.has_text THEN "RuntimeError: missing text"
    ELSE IF ~cleaned.is_str THEN "RuntimeError: non-string text"
    ELSE "none"

\* gpt_cleaner.py lines 113-129, one pair: the error raised, or "none".
SegmentFault(original, cleaned) ==
    IF original.id # cleaned.id THEN "RuntimeError: misaligned ids"
    ELSE IF original.start # cleaned.start \/ original.end # cleaned.end
    THEN "RuntimeError: changed timestamps"
    ELSE IF ~cleaned.has_text THEN "RuntimeError: missing text"
    ELSE IF ~cleaned.is_str THEN "RuntimeError: non-string text"
    ELSE "none"

\* gpt_cleaner.py lines 103-129: the error _process_chunk raises for a parsed
\* reply, or "none".
ChunkFault(chunk, reply) ==
    IF reply.kind = "no_list" THEN "RuntimeError: no segments list"
    ELSE IF Len(reply.segments) # Len(chunk) THEN "RuntimeError: lost segments"
    ELSE LET failing == {i \in 1..Len(chunk) :
                            SegmentFault(chunk[i], reply.segments[i]) # "none"}
         IN  IF failing = {} THEN "none"
             ELSE LET i == CHOOSE k \in failing : \A j \in failing : k <= j
                  IN  SegmentFault(chunk[i], reply.segments[i])

\* gpt_cleaner.py lines 130-132: the list _process_chunk returns.
ProcessedChunk(reply) ==
    [i \in 1..Len(reply.segments) |->
        [id |-> reply.segments[i].id, start |-> reply.segments[i].start,
         end |-> reply.segments[i].end,
         text |-> StripText(reply.segments[i].text)]]

\* gpt_cleaner.py line 10.
MAX_RETRIES == 2

NoCleanReply == [kind |-> "none", segments |-> <<>>]

\* How one call of the service may end, lines 72-83: the API call raises,
\* the content is not JSON, or json.loads returns an object.
CallOutcomes == {"api_error", "bad_json", "parsed"}

\* A loop that makes one attempt more than MAX_RETRIES.
RetriesExhaustedLate(made) == made > MAX_RETRIES

\* gpt_cleaner.py line 70: the range of attempts is used up.
RetriesExhausted(made) == made >= MAX_RETRIES

TranscriptSegments(durations) ==
    UNION {{[k \in 1..n |->
               [id |-> k - 1, start |-> (k - 1) * 1000,
                end |-> (k - 1) * 1000 + d[k], text |-> t[k]]] :
              d \in [1..n -> durations], t \in [1..n -> TranscriptTexts]} :
           n \in 0..MaxCleaned}

InitClean ==
    /\ cl_pc = "call"
    /\ json_segments \in TranscriptSegments({1000})
    /\ cl_chunks = <<>>
    /\ cl_k = 0
    /\ cleaned_segments = <<>>
    /\ cl_error = "none"
    /\ attempt = 0
    /\ cl_reply = NoCleanReply

\* gpt_cleaner.py lines 139-152.
CleanStart ==
    /\ UNCHANGED notCleanVars
    /\ cl_pc = "call"
    /\ IF json_segments = <<>>
       THEN /\ cl_pc' = "done"
            /\ UNCHANGED <<cl_chunks, cl_k>>
       ELSE /\ cl_pc' = "chunk"
            /\ cl_chunks' = _chunk_segments(json_segments)
            /\ cl_k' = 1
    /\ UNCHANGED <<json_segments, cleaned_segments, cl_error, attempt,
                   cl_reply, vad_pc, vad_segments, filtered_segments>>

\* gpt_cleaner.py lines 67-85: one attempt of _call_gpt for the current
\* chunk; a failed attempt that uses up the range raises RuntimeError.
CallGptAttempt ==
    /\ UNCHANGED notCleanVars
    /\ cl_pc = "chunk"
    /\ cl_k <= Len(cl_chunks)
    /\ attempt' = attempt + 1
    /\ \E outcome \in CallOutcomes :
         IF outcome = "parsed"
         THEN /\ \E reply \in CleanReplies(cl_chunks[cl_k]) :
                    cl_reply' = reply
              /\ cl_pc' = "check"
              /\ UNCHANGED cl_error
         ELSE /\ IF RetriesExhausted(attempt + 1)
                 THEN /\ cl_error' = "RuntimeError: GPT failed"
                      /\ cl_pc' = "failed"
                 ELSE UNCHANGED <<cl_pc, cl_error>>
              /\ UNCHANGED cl_reply
    /\ UNCHANGED <<json_segments, cl_chunks, cl_k, cleaned_segments, vad_pc,
                   vad_segments, filtered_segments>>

\* gpt_cleaner.py lines 103-132 and 153-162: the checks of the parsed reply
\* and the extension of the cleaned list.
ProcessChunk ==
    /\ UNCHANGED notCleanVars
    /\ cl_pc = "check"
    /\ LET fault == ChunkFault(cl_chunks[cl_k], cl_reply)
       IN  IF fault # "none"
           THEN /\ cl_error' = fault
                /\ cl_pc' = "failed"
                /\ UNCHANGED <<cleaned_segments, cl_k, attempt, cl_reply>>
           ELSE /\ cleaned_segments' =
                      cleaned_segments \o ProcessedChunk(cl_reply)
                /\ cl_k' = cl_k + 1
                /\ attempt' = 0
                /\ cl_reply' = NoCleanReply
                /\ cl_pc' = "chunk"
                /\ UNCHANGED cl_error
    /\ UNCHANGED <<json_segments, cl_chunks, vad_pc, vad_segments,
                   filtered_segments>>

\* gpt_cleaner.py lines 164-172.
CleanFinish ==
    /\ UNCHANGED notCleanVars
    /\ cl_pc = "chunk"
    /\ cl_k > Len(cl_chunks)
    /\ json_segments' = cleaned_segments
    /\ cl_pc' = "done"
    /\ UNCHANGED <<cl_chunks, cl_k, cleaned_segments, cl_error, attempt,
                   cl_reply, vad_pc, vad_segments, filtered_segments>>

IdleClean ==
    /\ cl_pc = "idle"
    /\ json_segments = <<>>
    /\ cl_chunks = <<>>
    /\ cl_k = 0
    /\ cleaned_segments = <<>>
    /\ cl_error = "none"
    /\ attempt = 0
    /\ cl_reply = NoCleanReply

InitVad ==
    /\ vad_pc = "call"
    /\ vad_segments \in TranscriptSegments({0, 1000})
    /\ filtered_segments = <<>>

\* vad_filter.py lines 104-117, one segment.
FilteredSegment(seg, has_voice) ==
    IF seg.end <= seg.start \/ ~has_voice
    THEN [seg EXCEPT !.text = EmptyText]
    ELSE seg

\* vad_filter.py lines 90-123; loading the audio may fail.
FilterSegments ==
    /\ UNCHANGED notCleanVars
    /\ vad_pc = "call"
    /\ IF vad_segments = <<>>
       THEN /\ vad_pc' = "done"
            /\ filtered_segments' = <<>>
       ELSE \E audio_ok \in BOOLEAN,
               voice \in [1..Len(vad_segments) -> BOOLEAN] :
              IF audio_ok
              THEN /\ filtered_segments' =
                         [i \in 1..Len(vad_segments) |->
                            FilteredSegment(vad_segments[i], voice[i])]
                   /\ vad_pc' = "done"
              ELSE /\ vad_pc' = "failed"
                   /\ UNCHANGED filtered_segments
    /\ UNCHANGED <<cl_pc, json_segments, cl_chunks, cl_k, cleaned_segments,
                   cl_error, attempt, cl_reply, vad_segments>>

IdleVad ==
    /\ vad_pc = "idle"
    /\ vad_segments = <<>>
    /\ filtered_segments = <<>>

(***************************************************************************)
(* generate_voice_over_track: the overlay track                            *)
(***************************************************************************)
SILENCE_TAIL_MS == 500
SANITY_MARGIN_MS == 500
SANITY_FLOOR_MS == 500

SeqMax(s) == IF s = <<>> THEN 0
             ELSE CHOOSE m \in {s[i] : i \in 1..Len(s)} :
                     \A i \in 1..Len(s) : s[i] <= m

\* voice_over_tts.py lines 61-73: the segments kept by the loader.
LoadedSegments(raw) ==
    LET kept == SelectSeq(raw, LAMBDA r : Strip(r.dst) # <<>> /\ r.end > r.start)
    IN  [i \in 1..Len(kept) |->
            [id |-> kept[i].id, start |-> kept[i].start, end |-> kept[i].end,
             text |-> Strip(kept[i].dst)]]

\* voice_over_tts.py lines 51-79: the error of load_translated_segments.
LoadFault(file, raw) ==
    IF file = "missing" THEN "VoiceOverError: translated.json not found"
    ELSE IF file # "list" THEN "VoiceOverError: unexpected format"
    ELSE IF LoadedSegments(raw) = <<>>
    THEN "VoiceOverError: no translated segments with text"
    ELSE "none"

\* voice_over_tts.py lines 82-90.
load_original_duration(segs, meta_duration) ==
    IF meta_duration > 0 THEN meta_duration
    ELSE SeqMax([i \in 1..Len(segs) |-> segs[i].end])

\* voice_over_tts.py lines 42-44.
duration_ms(seg) == Max(seg.end - seg.start, 0)

\* pydub's overlay keeps the length of the track it is laid on: the part of
\* the clip that is heard ends with the track.
AudibleEnd(o, track) == Min(o.position + o.clip, track)

\* voice_over_tts.py line 304: min_duration.
SanityMinimum(timeline) == Max(SANITY_FLOOR_MS, timeline - SANITY_MARGIN_MS)

InitVoice ==
    /\ vo_pc = "load"
    /\ vo_file \in {"missing", "dict", "list"}
    /\ \E n \in 1..MaxVoiced :
         \E s \in VoiceStarts, d \in [1..n -> VoiceDurations],
            g \in [1..n -> VoiceGaps], t \in [1..n -> {<<>>, Rep("d", 4)}] :
            LET RECURSIVE StartOf(_)
                StartOf(k) == IF k = 1 THEN s
                              ELSE StartOf(k - 1) + d[k - 1] + g[k]
            IN  vo_raw = [k \in 1..n |->
                            [id |-> k - 1, start |-> StartOf(k),
                             end |-> StartOf(k) + d[k], dst |-> t[k]]]
    /\ transcript_duration \in TranscriptDurations
    /\ vo_segments = <<>>
    /\ total_duration = 0
    /\ timeline_duration = 0
    /\ vo_i = 0
    /\ final_audio = 0
    /\ overlays = <<>>
    /\ wav_duration = 0
    /\ vo_error = "none"

\* voice_over_tts.py lines 272-276.
LoadVoice ==
    /\ UNCHANGED notVoiceVars
    /\ vo_pc = "load"
    /\ LET fault == LoadFault(vo_file, vo_raw)
           segs == LoadedSegments(vo_raw)
           total == load_original_duration(segs, transcript_duration)
       IN  IF fault # "none"
           THEN /\ vo_error' = fault
                /\ vo_pc' = "failed"
                /\ UNCHANGED <<vo_segments, total_duration>>
           ELSE IF total <= 0
           THEN /\ vo_error' = "VoiceOverError: no original duration"
                /\ vo_pc' = "failed"
                /\ UNCHANGED <<vo_segments, total_duration>>
           ELSE /\ vo_segments' = segs
                /\ total_duration' = total
                /\ vo_pc' = "onset"
                /\ UNCHANGED vo_error
    /\ UNCHANGED <<vo_file, vo_raw, transcript_duration, timeline_duration,
                   vo_i, final_audio, overlays, wav_duration>>

\* voice_over_tts.py lines 278-298 and 210-216: the onset offset, the
\* target duration and the silent timeline.
ApplyOnset ==
    /\ UNCHANGED notVoiceVars
    /\ vo_pc = "onset"
    /\ \E real_start \in SpeechOnsets :
         LET offset == real_start - vo_segments[1].start
             moved == [i \in 1..Len(vo_segments) |->
                         [vo_segments[i] EXCEPT
                             !.start = vo_segments[i].start + offset,
                             !.end = vo_segments[i].end + offset]]
             max_segment_end == SeqMax([i \in 1..Len(moved) |-> moved[i].end])
             timeline == Max(total_duration + offset, max_segment_end)
         IN  /\ vo_segments' = moved
             /\ timeline_duration' = timeline
             /\ final_audio' = timeline + SILENCE_TAIL_MS
    /\ vo_i' = 1
    /\ vo_pc' = "place"
    /\ UNCHANGED <<vo_file, vo_raw, transcript_duration, total_duration,
                   overlays, wav_duration, vo_error>>

\* voice_over_tts.py lines 218-234: one segment; the synthesis may fail.
OverlayStep ==
    /\ UNCHANGED notVoiceVars
    /\ vo_pc = "place"
    /\ vo_i <= Len(vo_segments)
    /\ \E tts_ok \in BOOLEAN, tts_len \in TtsLens :
         IF duration_ms(vo_segments[vo_i]) <= 0
         THEN /\ vo_i' = vo_i + 1
              /\ UNCHANGED <<overlays, vo_pc, vo_error>>
         ELSE IF tts_ok
         THEN /\ overlays' = Append(overlays,
                                    [position |-> vo_segments[vo_i].start,
                                     clip |-> tts_len])
              /\ vo_i' = vo_i + 1
              /\ UNCHANGED <<vo_pc, vo_error>>
         ELSE /\ vo_error' = "synthesis failed"
              /\ vo_pc' = "failed"
              /\ UNCHANGED <<overlays, vo_i>>
    /\ UNCHANGED <<vo_file, vo_raw, transcript_duration, vo_segments,
                   total_duration, timeline_duration, final_audio,
                   wav_duration>>

\* voice_over_tts.py lines 303-306: export and sanity_check_wav.
ExportVoice ==
    /\ UNCHANGED notVoiceVars
    /\ vo_pc = "place"
    /\ vo_i > Len(vo_segments)
    /\ wav_duration' = final_audio
    /\ IF final_audio < SanityMinimum(timeline_duration)
       THEN /\ vo_error' = "VoiceOverError: WAV too short"
            /\ vo_pc' = "failed"
       ELSE /\ vo_pc' = "done"
            /\ UNCHANGED vo_error
    /\ UNCHANGED <<vo_file, vo_raw, transcript_duration, vo_segments,
                   total_duration, timeline_duration, vo_i, final_audio,
                   overlays>>

IdleVoice ==
    /\ vo_pc = "idle"
    /\ vo_file = "missing"
    /\ vo_raw = <<>>
    /\ transcript_duration = 0
    /\ vo_segments = <<>>
    /\ total_duration = 0
    /\ timeline_duration = 0
    /\ vo_i = 0
    /\ final_audio = 0
    /\ overlays = <<>>
    /\ wav_duration = 0
    /\ vo_error = "none"

(***************************************************************************)
(* dub.py: run_dubbing_pipeline.  Every stage is a command started by run, *)
(* which looks at the exit status only.  The folders are counted: the      *)
(* translated segments, the chunk files, the synthesized clips, the fitted *)
(* clips, and whether the final track and the final video exist.           *)
(* Every stage is its main function; stretch_audio.py and merge_video.py   *)
(* also import CHUNKS_DIR, INPUT_DIR and OUTPUT_DIR from config, which     *)
(* defines none of them at this revision.                                  *)
(***************************************************************************)
EmptyDisk == [segments |-> 0, over_ceiling |-> FALSE, chunks |-> 0,
              tts |-> 0, fixed |-> 0, final_audio |-> FALSE,
              final_video |-> FALSE]

NoGate == [stage |-> "none", code |-> 0]

\* dub.py lines 74-79: the command ran; a status other than 0 stops the run.
run(stage, code, next) ==
    /\ pl_started' = Append(pl_started, stage)
    /\ pl_pc' = IF code # 0 THEN "halted" ELSE next

\* The first gate met is remembered with the status of its stage.
MeetGate(stage, met, code) ==
    pl_gate' = IF met /\ pl_gate = NoGate
               THEN [stage |-> stage, code |-> code]
               ELSE pl_gate

InitPipeline ==
    /\ pl_pc = "extract_audio"
    /\ disk = EmptyDisk
    /\ pl_started = <<>>
    /\ pl_gate = NoGate

\* dub.py line 91.
RunExtractAudio ==
    /\ UNCHANGED notPipeVars
    /\ pl_pc = "extract_audio"
    /\ \E code \in {0, 1} : run("extract_audio", code, "whisper_transcribe")
    /\ UNCHANGED <<disk, pl_gate>>

\* dub.py line 92.
RunWhisperTranscribe ==
    /\ UNCHANGED notPipeVars
    /\ pl_pc = "whisper_transcribe"
    /\ \E code \in {0, 1} : run("whisper_transcribe", code, "translate_chunks")
    /\ UNCHANGED <<disk, pl_gate>>

\* dub.py line 93 and translate_chunks.py lines 127-148: a translation that
\* passes its validation has at least one segment.
RunTranslateChunks ==
    /\ UNCHANGED notPipeVars
    /\ pl_pc = "translate_chunks"
    /\ \E code \in {0, 1}, n \in 1..MaxStageFiles, long \in BOOLEAN :
         /\ run("translate_chunks", code, "split_chunks")
         /\ disk' = IF code = 0
                    THEN [disk EXCEPT !.segments = n, !.over_ceiling = long]
                    ELSE disk
    /\ UNCHANGED pl_gate

\* dub.py line 103 and split_chunks.py lines 60-102.
RunSplitChunks ==
    /\ UNCHANGED notPipeVars
    /\ pl_pc = "split_chunks"
    /\ IF disk.segments = 0
       THEN /\ run("split_chunks", 0, "generate_tts")
            /\ MeetGate("split_chunks", TRUE, 0)
            /\ disk' = [disk EXCEPT !.chunks = 0]
       ELSE \E n \in 1..disk.segments :
              LET code == IF disk.over_ceiling THEN 1 ELSE 0
              IN  /\ run("split_chunks", code, "generate_tts")
                  /\ MeetGate("split_chunks", disk.over_ceiling, code)
                  /\ disk' = [disk EXCEPT !.chunks = n]

\* dub.py line 104 and generate_tts.py lines 11-67: the synthesis of a chunk
\* or the check of its clip may raise.
RunGenerateTts ==
    /\ UNCHANGED notPipeVars
    /\ pl_pc = "generate_tts"
    /\ IF disk.chunks = 0
       THEN /\ run("generate_tts", 0, "stretch_audio")
            /\ MeetGate("generate_tts", TRUE, 0)
            /\ UNCHANGED disk
       ELSE \E made \in 0..disk.chunks :
              /\ run("generate_tts", IF made < disk.chunks THEN 1 ELSE 0,
                     "stretch_audio")
              /\ disk' = [disk EXCEPT !.tts = made]
              /\ UNCHANGED pl_gate

\* dub.py line 105 and stretch_audio.py lines 69-117: a chunk without a clip
\* is skipped, a failing ffmpeg raises.
RunStretchAudio ==
    /\ UNCHANGED notPipeVars
    /\ pl_pc = "stretch_audio"
    /\ IF disk.chunks = 0
       THEN /\ run("stretch_audio", 0, "merge_audio")
            /\ MeetGate("stretch_audio", TRUE, 0)
            /\ UNCHANGED disk
       ELSE \E made \in 0..Min(disk.tts, disk.chunks) :
              /\ run("stretch_audio",
                     IF made < Min(disk.tts, disk.chunks) THEN 1 ELSE 0,
                     "merge_audio")
              /\ disk' = [disk EXCEPT !.fixed = made]
              /\ UNCHANGED pl_gate

\* dub.py line 106 and merge_audio.py lines 27-90: the status of ffmpeg is
\* not looked at.
RunMergeAudio ==
    /\ UNCHANGED notPipeVars
    /\ pl_pc = "merge_audio"
    /\ run("merge_audio", 0, "merge_video")
    /\ IF disk.fixed = 0 \/ disk.chunks = 0
       THEN /\ MeetGate("merge_audio", TRUE, 0)
            /\ UNCHANGED disk
       ELSE \E ffmpeg_ok \in BOOLEAN :
              /\ disk' = [disk EXCEPT !.final_audio =
                                         ffmpeg_ok /\ disk.fixed = disk.chunks]
              /\ UNCHANGED pl_gate

\* dub.py line 107 and merge_video.py lines 18-72.
RunMergeVideo ==
    /\ UNCHANGED notPipeVars
    /\ pl_pc = "merge_video"
    /\ run("merge_video", 0, "report")
    /\ IF ~disk.final_audio
       THEN /\ MeetGate("merge_video", TRUE, 0)
            /\ UNCHANGED disk
       ELSE \E ffmpeg_ok \in BOOLEAN :
              /\ disk' = [disk EXCEPT !.final_video = ffmpeg_ok]
              /\ UNCHANGED pl_gate

\* dub.py lines 109-110.
ReportAllDone ==
    /\ UNCHANGED notPipeVars
    /\ pl_pc = "report"
    /\ pl_pc' = "all_done"
    /\ UNCHANGED <<disk, pl_started, pl_gate>>

IdlePipeline ==
    /\ pl_pc = "idle"
    /\ disk = EmptyDisk
    /\ pl_started = <<>>
    /\ pl_gate = NoGate

(***************************************************************************)
(* External commands: the call sites and the wait for the child process.   *)
(***************************************************************************)
NO_TIMEOUT == 0

\* The call sites and the timeout, in seconds, each passes.
CallSites ==
    {[name |-> "subtitles.get_video_resolution", timeout |-> NO_TIMEOUT],
     [name |-> "subtitles.burn_subtitles", timeout |-> 180],
     [name |-> "subtitles.download_video_from_url: dump-json", timeout |-> 20],
     [name |-> "subtitles.download_video_from_url: download",
      timeout |-> NO_TIMEOUT],
     [name |-> "subtitles.extract_audio_from_video", timeout |-> NO_TIMEOUT],
     [name |-> "stretch_audio.ffmpeg_apply", timeout |-> NO_TIMEOUT],
     [name |-> "audio.convert_to_wav", timeout |-> NO_TIMEOUT],
     [name |-> "video_duration.get_video_duration", timeout |-> NO_TIMEOUT],
     [name |-> "generate_tts.generate_tts", timeout |-> NO_TIMEOUT],
     [name |-> "merge_audio.merge_audio", timeout |-> NO_TIMEOUT],
     [name |-> "voice_over_tts.stretch_with_ffmpeg", timeout |-> NO_TIMEOUT],
     [name |-> "dub.run", timeout |-> NO_TIMEOUT],
     [name |-> "downloader._get_duration_from_url", timeout |-> 20],
     [name |-> "downloader._download_media", timeout |-> 120]}

NoSite == [name |-> "none", timeout |-> NO_TIMEOUT]

InitSubprocess ==
    /\ sp_pc = "start"
    /\ sp_site \in CallSites
    /\ proc = "none"
    /\ proc_hangs \in BOOLEAN
    /\ returncode = 0
    /\ sp_error = "none"

\* subtitles.py line 26, line 44, stretch_audio.py line 29: the child starts
\* and the caller waits for it.
Spawn ==
    /\ UNCHANGED notProcVars
    /\ sp_pc = "start"
    /\ proc' = "running"
    /\ sp_pc' = "waiting"
    /\ UNCHANGED <<sp_site, proc_hangs, returncode, sp_error>>

\* The child ends by itself.
ProcessExits ==
    /\ UNCHANGED notProcVars
    /\ proc = "running"
    /\ ~proc_hangs
    /\ proc' = "exited"
    /\ returncode' \in {0, 1}
    /\ UNCHANGED <<sp_pc, sp_site, proc_hangs, sp_error>>

\* subtitles.py lines 30 and 37, lines 60-66, stretch_audio.py lines 29-40:
\* the wait ends with the child, which is reaped.
WaitReturns ==
    /\ UNCHANGED notProcVars
    /\ sp_pc = "waiting"
    /\ proc = "exited"
    /\ proc' = "reaped"
    /\ sp_pc' = IF returncode = 0 THEN "returned" ELSE "raised"
    /\ sp_error' = IF returncode = 0 THEN "none" ELSE "RuntimeError"
    /\ UNCHANGED <<sp_site, proc_hangs, returncode>>

\* subtitles.py lines 31-35: the timeout expires, the child is killed and
\* reaped, TimeoutError is raised.
TimeoutExpires ==
    /\ UNCHANGED notProcVars
    /\ sp_pc = "waiting"
    /\ sp_site.timeout # NO_TIMEOUT
    /\ proc' = "reaped"
    /\ sp_pc' = "raised"
    /\ sp_error' = "TimeoutError"
    /\ UNCHANGED <<sp_site, proc_hangs, returncode>>

IdleSubprocess ==
    /\ sp_pc = "idle"
    /\ sp_site = NoSite
    /\ proc = "none"
    /\ proc_hangs = FALSE
    /\ returncode = 0
    /\ sp_error = "none"

\* The machines a specification leaves alone.
(***************************************************************************)
(* The energy detectors.  Energies are whole numbers of 1e-6; a smoothed   *)
(* energy is kept as the sum over its kernel (times the kernel length) and *)
(* a percentile as five times its value, so every comparison is exact.     *)
(***************************************************************************)
\* speech_onset.py line 9 and detect_speech_start.py line 6.
frame_ms == 20

\* speech_onset.py line 66: the 1e-6 added to the noise level.
ONSET_EPS == 1

\* detect_speech_start.py line 6: threshold, in the unit of the energies.
START_THRESHOLD == 2

\* semantic_segmenter.py line 29: the kernel of detect_pauses_energy.
PAUSE_KERNEL == 5

\* x[i], 0 outside the array (the zero padding of np.convolve).
At(x, i) == IF i >= 1 /\ i <= Len(x) THEN x[i] ELSE 0

\* np.convolve(x, np.ones(s) / s, mode="same") for len(x) >= s, times s.
ConvolveSame(x, s) ==
    [i \in 1..Len(x) |->
        SumSeq([k \in 1..s |-> At(x, i + (s - 1) \div 2 - (k - 1))])]

RECURSIVE InsertSorted(_, _)
InsertSorted(a, v) ==
    IF a = <<>> THEN <<v>>
    ELSE IF v <= Head(a) THEN <<v>> \o a
    ELSE <<Head(a)>> \o InsertSorted(Tail(a), v)

RECURSIVE SortedSeq(_)
SortedSeq(x) == IF x = <<>> THEN <<>> ELSE InsertSorted(SortedSeq(Tail(x)), Head(x))

\* np.percentile(x, 20 * q), linear interpolation, times 5.
Percentile5(x, q) ==
    LET a == SortedSeq(x)
        k == (q * (Len(x) - 1)) \div 5
        r == (q * (Len(x) - 1)) % 5
    IN  IF r = 0 THEN 5 * a[k + 1]
        ELSE 5 * a[k + 1] + r * (a[k + 2] - a[k + 1])

CeilDiv(a, b) == (a + b - 1) \div b

\* speech_onset.py line 26: the step between two frames, ms.
step_ms == frame_ms \div 2

\* speech_onset.py lines 60-66, times 5 * s: baseline_frames is at least 50,
\* more than the frames of a clip here, so the noise slice is every frame.
OnsetThreshold(sm, s) ==
    LET noise_level == Percentile5(sm, 3)
    IN  Max(noise_level * 4, noise_level + 5 * s * ONSET_EPS)

\* speech_onset.py line 79: the test on the hold window.
WindowMeanAbove(window, thr, hold_frames) ==
    5 * SumSeq(window) > thr * hold_frames

\* A hold window accepted only when each of its frames is above.
WindowAllAbove(window, thr, hold_frames) ==
    \A j \in 1..Len(window) : 5 * window[j] > thr

\* speech_onset.py line 68.
HoldFrames(hold) == Max(CeilDiv(hold, step_ms), 2)

\* speech_onset.py lines 71-82, from frame idx (0-based) on; ms.
RECURSIVE OnsetFrom(_, _, _, _)
OnsetFrom(sm, thr, hold_frames, idx) ==
    IF idx >= Len(sm) THEN 0
    ELSE IF 5 * sm[idx + 1] <= thr
    THEN OnsetFrom(sm, thr, hold_frames, idx + 1)
    ELSE IF Len(sm) - idx < hold_frames THEN 0
    ELSE IF WindowMeanAbove(SubSeq(sm, idx + 1, idx + hold_frames), thr,
                            hold_frames)
    THEN idx * step_ms
    ELSE OnsetFrom(sm, thr, hold_frames, idx + 1)

\* detect_speech_start.py lines 44-48: the frames after frame i.
SpeechContinues(e, thr, i, min_speech_frames) ==
    \A j \in 1..(min_speech_frames - 1) :
        ~(i + j >= Len(e) \/ e[i + j + 1] < thr)

\* detect_speech_start.py lines 39-56, from frame i (0-based) on; ms.
RECURSIVE StartFrom(_, _, _, _)
StartFrom(e, thr, min_speech_frames, i) ==
    IF i >= Len(e) THEN 0
    ELSE IF e[i + 1] > thr /\ SpeechContinues(e, thr, i, min_speech_frames)
    THEN i * frame_ms
    ELSE StartFrom(e, thr, min_speech_frames, i + 1)

\* semantic_segmenter.py lines 36-54, from frame idx (0-based) on.
RECURSIVE PausesFrom(_, _, _, _, _, _, _)
PausesFrom(e, speech, silence, pause_min_ms, idx, in_speech, quiet_frames) ==
    IF idx >= Len(e) THEN <<>>
    ELSE IF in_speech
    THEN IF 50 * e[idx + 1] < silence
         THEN IF (quiet_frames + 1) * frame_ms >= pause_min_ms
              THEN <<idx * frame_ms>>
                   \o PausesFrom(e, speech, silence, pause_min_ms, idx + 1,
                                 FALSE, 0)
              ELSE PausesFrom(e, speech, silence, pause_min_ms, idx + 1,
                              TRUE, quiet_frames + 1)
         ELSE PausesFrom(e, speech, silence, pause_min_ms, idx + 1, TRUE, 0)
    ELSE PausesFrom(e, speech, silence, pause_min_ms, idx + 1,
                    50 * e[idx + 1] > speech, 0)

InitSignal ==
    /\ sg_pc = "call"
    /\ sg_fn = "none"
    /\ smooth \in SmoothChoices
    /\ hold_ms \in HoldChoices
    /\ energies \in {e \in SeqsUpTo(EnergyLevels, MaxFrames) :
                        Len(e) >= Max(smooth, 1)}
    /\ smoothed = <<>>
    /\ sg_scale = 1
    /\ threshold = 0
    /\ silence_thr = 0
    /\ onset = 0
    /\ sg_pauses = <<>>

\* speech_onset.py lines 50-82.
DetectSpeechOnset ==
    /\ UNCHANGED notSignalVars
    /\ sg_pc = "call"
    /\ LET sm == IF smooth > 1 THEN ConvolveSame(energies, smooth)
                 ELSE energies
           thr == OnsetThreshold(sm, smooth)
       IN  /\ smoothed' = sm
           /\ sg_scale' = smooth
           /\ threshold' = thr
           /\ onset' = OnsetFrom(sm, thr, HoldFrames(hold_ms), 0)
    /\ sg_fn' = "detect_speech_onset"
    /\ sg_pc' = "done"
    /\ UNCHANGED <<energies, smooth, hold_ms, silence_thr, sg_pauses>>

\* detect_speech_start.py lines 20-56; hold_ms is min_speech_ms.
DetectSpeechStart ==
    /\ UNCHANGED notSignalVars
    /\ sg_pc = "call"
    /\ smoothed' = energies
    /\ sg_scale' = 1
    /\ threshold' = 5 * START_THRESHOLD
    /\ onset' = StartFrom(energies, START_THRESHOLD, hold_ms \div frame_ms, 0)
    /\ sg_fn' = "detect_speech_start"
    /\ sg_pc' = "done"
    /\ UNCHANGED <<energies, smooth, hold_ms, silence_thr, sg_pauses>>

\* semantic_segmenter.py lines 25-54; hold_ms is pause_min_ms.  The
\* thresholds are kept times 250: noise * 2.2 and noise * 1.4.
DetectPausesEnergy ==
    /\ UNCHANGED notSignalVars
    /\ sg_pc = "call"
    /\ LET sm == IF Len(energies) > PAUSE_KERNEL
                 THEN ConvolveSame(energies, PAUSE_KERNEL)
                 ELSE [i \in 1..Len(energies) |-> PAUSE_KERNEL * energies[i]]
           noise == Percentile5(sm, 1)
           speech_thr == noise * 22
       IN  /\ smoothed' = sm
           /\ sg_scale' = PAUSE_KERNEL
           /\ threshold' = speech_thr
           /\ silence_thr' = noise * 14
           /\ sg_pauses' = PausesFrom(sm, speech_thr, noise * 14, hold_ms, 0,
                                   FALSE, 0)
    /\ sg_fn' = "detect_pauses_energy"
    /\ sg_pc' = "done"
    /\ UNCHANGED <<energies, smooth, hold_ms, onset>>

IdleSignal ==
    /\ sg_pc = "idle"
    /\ sg_fn = "none"
    /\ energies = <<>>
    /\ smooth = 1
    /\ hold_ms = 0
    /\ smoothed = <<>>
    /\ sg_scale = 1
    /\ threshold = 0
    /\ silence_thr = 0
    /\ onset = 0
    /\ sg_pauses = <<>>

(***************************************************************************)
(* translated.json on its way from translate_segments to its two readers.  *)
(***************************************************************************)
\* translate_chunks.py lines 132-138: the document written to translated.json.
SavedTranslation(segs) == [format |-> "dict", segments |-> segs]

\* split_chunks.py lines 31-40: a dict gives its "segments", a list itself.
load_segments(file) ==
    IF file.format = "dict" THEN file.segments
    ELSE IF file.format = "list" THEN file.segments
    ELSE <<>>

\* dub.py lines 93 and 103, split_chunks.py line 67: split_chunks reads what
\* the translation stage wrote; leading_silence comes from transcript.json.
SplitLoadsTranslated ==
    /\ UNCHANGED notChunkVars
    /\ tr_pc = "done"
    /\ ck_pc = "idle"
    /\ LET data == load_segments(SavedTranslation(translated_json))
       IN  ck_segments' = [k \in 1..Len(data) |->
                             [start |-> data[k].start, end |-> data[k].end,
                              dst |-> data[k].dst]]
    /\ leading_silence' \in LeadingSilences
    /\ ck_pc' = "load"
    /\ UNCHANGED <<ck_i, chunks, current_text, current_start, current_end,
                   saved_chunks, ck_error>>

\* dub.py lines 93 and 120, voice_over_tts.py lines 55-56: the voice-over
\* stage reads what the translation stage wrote.
VoiceLoadsTranslated ==
    /\ UNCHANGED notVoiceVars
    /\ tr_pc = "done"
    /\ vo_pc = "idle"
    /\ LET file == SavedTranslation(translated_json)
       IN  /\ vo_file' = file.format
           /\ vo_raw' = [k \in 1..Len(file.segments) |->
                           [id |-> file.segments[k].id,
                            start |-> file.segments[k].start,
                            end |-> file.segments[k].end,
                            dst |-> file.segments[k].dst]]
    /\ transcript_duration' \in TranscriptDurations
    /\ vo_pc' = "load"
    /\ UNCHANGED <<vo_segments, total_duration, timeline_duration, vo_i,
                   final_audio, overlays, wav_duration, vo_error>>

(***************************************************************************)
(* whisper_transcribe: the transcript is written, validated, cleaned and   *)
(* written again.                                                          *)
(***************************************************************************)
\* validators.py line 30: seg.get("text", "").strip() is not empty.
HasVoice(seg) == seg.text.chars > 0

\* validators.py lines 23-65: the error assert_valid_whisper raises, or
\* "none".
assert_valid_whisper(segs, language_ok) ==
    IF segs = <<>> THEN "WhisperValidationError: no segments"
    ELSE IF ~\E i \in 1..Len(segs) : HasVoice(segs[i])
    THEN "WhisperValidationError: no voiced segments"
    ELSE IF \E i \in 1..Len(segs) : segs[i].end <= segs[i].start
    THEN "WhisperValidationError: invalid timestamps"
    ELSE IF ~language_ok THEN "WhisperValidationError: language mismatch"
    ELSE "none"

InitTranscribe ==
    /\ wt_pc = "save"
    /\ wt_data \in TranscriptSegments({1000})
    /\ wt_language_ok \in BOOLEAN
    /\ transcript_json = "none"
    /\ wt_error = "none"

\* whisper_transcribe.py lines 338-356: the first write of transcript.json,
\* its validation and the call of the cleaner.
SaveAndValidate ==
    /\ UNCHANGED <<segVars, assignVars, chunkVars, mergeVars, fitVars,
                   tempoVars, transVars, voiceVars, pipeVars, procVars,
                   signalVars, handlerVars>>
    /\ wt_pc = "save"
    /\ cl_pc = "idle"
    /\ transcript_json' = wt_data
    /\ LET fault == assert_valid_whisper(wt_data, wt_language_ok)
       IN  IF fault # "none"
           THEN /\ wt_error' = fault
                /\ wt_pc' = "failed"
                /\ UNCHANGED cleanVars
           ELSE /\ wt_pc' = "clean"
                /\ json_segments' = wt_data
                /\ cl_pc' = "call"
                /\ UNCHANGED <<wt_error, cl_chunks, cl_k, cleaned_segments,
                               cl_error, attempt, cl_reply, vad_pc,
                               vad_segments, filtered_segments>>
    /\ UNCHANGED <<wt_data, wt_language_ok>>

\* whisper_transcribe.py lines 356-362: the cleaner returned or raised; what
\* it returned is written over transcript.json.
PersistCleaned ==
    /\ UNCHANGED notTranscribeVars
    /\ wt_pc = "clean"
    /\ cl_pc \in {"done", "failed"}
    /\ IF cl_pc = "failed"
       THEN /\ wt_error' = cl_error
            /\ wt_pc' = "failed"
            /\ UNCHANGED transcript_json
       ELSE /\ transcript_json' = json_segments
            /\ wt_pc' = "done"
            /\ UNCHANGED wt_error
    /\ UNCHANGED <<wt_data, wt_language_ok>>

IdleTranscribe ==
    /\ wt_pc = "idle"
    /\ wt_data = <<>>
    /\ wt_language_ok = TRUE
    /\ transcript_json = "none"
    /\ wt_error = "none"

(***************************************************************************)
(* The bot's media handlers.  The dispatcher (main.py lines 33-44) runs    *)
(* every update in a task of its own on one event loop, with the default   *)
(* in-memory FSM storage: a handler runs alone up to its next network      *)
(* call (sending an answer, downloading, transcribing), and the calls of   *)
(* the FSM storage complete without giving up the loop.  An action below   *)
(* is one such uninterrupted piece of a handler.  The user's FSM state is  *)
(* chosen before the messages arrive.                                      *)
(***************************************************************************)
Messages == 1..MaxMessages

\* handlers/media.py lines 181-186: the states in which handle_media and
\* handle_media_links leave the message alone.
SubtitleStates ==
    {"waiting_for_video", "choosing_subtitle_language", "generating",
     "sending_result"}

\* A handler past its check that has not returned or raised yet.
InFlight(m) == h_pc[m] \in {"working", "replying"}

Exits(m, how) ==
    /\ h_pc' = [h_pc EXCEPT ![m] = "exited"]
    /\ h_exit' = [h_exit EXCEPT ![m] = how]

InitHandlers ==
    /\ processing = FALSE
    /\ fsm_state \in {"none", "waiting_for_video"}
    /\ h_handler = [m \in Messages |-> "none"]
    /\ h_pc = [m \in Messages |-> "new"]
    /\ h_exit = [m \in Messages |-> "none"]

\* handlers/media.py lines 179-207: handle_media up to its first answer.
HandleMedia(m) ==
    /\ UNCHANGED notHandlerVars
    /\ h_pc[m] = "new"
    /\ h_handler' = [h_handler EXCEPT ![m] = "handle_media"]
    /\ UNCHANGED fsm_state
    /\ \E acceptable \in BOOLEAN :
          IF fsm_state \in SubtitleStates
          THEN Exits(m, "ignored") /\ UNCHANGED processing
          ELSE IF processing
          THEN Exits(m, "rejected") /\ UNCHANGED processing
          ELSE IF ~acceptable
          THEN Exits(m, "refused") /\ UNCHANGED processing
          ELSE /\ processing' = TRUE
               /\ h_pc' = [h_pc EXCEPT ![m] = "working"]
               /\ UNCHANGED h_exit

\* handlers/media.py lines 221-243: handle_media_links up to its first
\* answer.
HandleMediaLinks(m) ==
    /\ UNCHANGED notHandlerVars
    /\ h_pc[m] = "new"
    /\ h_handler' = [h_handler EXCEPT ![m] = "handle_media_links"]
    /\ UNCHANGED fsm_state
    /\ \E supported_url \in BOOLEAN :
          IF fsm_state \in SubtitleStates
          THEN Exits(m, "ignored") /\ UNCHANGED processing
          ELSE IF processing
          THEN Exits(m, "rejected") /\ UNCHANGED processing
          ELSE IF ~supported_url
          THEN Exits(m, "ignored") /\ UNCHANGED processing
          ELSE /\ processing' = TRUE
               /\ h_pc' = [h_pc EXCEPT ![m] = "working"]
               /\ UNCHANGED h_exit

\* handlers/media.py lines 208-217 and 244-250 with _process_audio (lines
\* 99-126): the download and the transcription end.  When they succeed the
\* language is asked for and the finally block resets the flag; a failed
\* transcription is answered inside _process_audio; any other exception
\* goes to the except block, which sends an answer.
MediaJobEnds(m) ==
    /\ UNCHANGED notHandlerVars
    /\ h_pc[m] = "working"
    /\ h_handler[m] \in {"handle_media", "handle_media_links"}
    /\ UNCHANGED h_handler
    /\ \E outcome \in {"asked", "not_transcribed", "raised"} :
          CASE outcome = "asked" ->
                  /\ fsm_state' = "waiting_for_language"
                  /\ processing' = FALSE
                  /\ Exits(m, "success")
            [] outcome = "not_transcribed" ->
                  /\ processing' = FALSE
                  /\ Exits(m, "handled error")
                  /\ UNCHANGED fsm_state
            [] outcome = "raised" ->
                  /\ h_pc' = [h_pc EXCEPT ![m] = "replying"]
                  /\ UNCHANGED <<processing, fsm_state, h_exit>>

\* handlers/media.py lines 210-217 and 246-250: the answer of the except
\* block is sent or raises; the finally block resets the flag either way.
MediaErrorReply(m) ==
    /\ UNCHANGED notHandlerVars
    /\ h_pc[m] = "replying"
    /\ h_handler[m] \in {"handle_media", "handle_media_links"}
    /\ UNCHANGED <<h_handler, fsm_state>>
    /\ processing' = FALSE
    /\ \E answered \in BOOLEAN :
          Exits(m, IF answered THEN "handled error" ELSE "exception")

\* subtitles.py lines 164-173: handle_video_upload up to the download; its
\* filter is the state waiting_for_video.
HandleVideoUpload(m) ==
    /\ UNCHANGED notHandlerVars
    /\ h_pc[m] = "new"
    /\ fsm_state = "waiting_for_video"
    /\ h_handler' = [h_handler EXCEPT ![m] = "handle_video_upload"]
    /\ UNCHANGED fsm_state
    /\ IF processing
       THEN Exits(m, "rejected") /\ UNCHANGED processing
       ELSE /\ processing' = TRUE
            /\ h_pc' = [h_pc EXCEPT ![m] = "working"]
            /\ UNCHANGED h_exit

\* subtitles.py lines 173-188 with _ask_language_choice (lines 94-111):
\* the download ends; after a good one the flag is reset and the language
\* is asked for, after a failed one an except block sends an answer.
UploadJobEnds(m) ==
    /\ UNCHANGED notHandlerVars
    /\ h_pc[m] = "working"
    /\ h_handler[m] = "handle_video_upload"
    /\ UNCHANGED h_handler
    /\ \E downloaded \in BOOLEAN :
          IF downloaded
          THEN /\ processing' = FALSE
               /\ fsm_state' = "choosing_subtitle_language"
               /\ Exits(m, "success")
          ELSE /\ h_pc' = [h_pc EXCEPT ![m] = "replying"]
               /\ UNCHANGED <<processing, fsm_state, h_exit>>

\* subtitles.py lines 174-185: the answer of the except block is sent or
\* raises; update_data(processing=False) is the statement after it.
UploadErrorReply(m) ==
    /\ UNCHANGED notHandlerVars
    /\ h_pc[m] = "replying"
    /\ h_handler[m] = "handle_video_upload"
    /\ UNCHANGED <<h_handler, fsm_state>>
    /\ \E answered \in BOOLEAN :
          /\ processing' = IF answered THEN FALSE ELSE processing
          /\ Exits(m, IF answered THEN "handled error" ELSE "exception")

IdleHandlers ==
    /\ processing = FALSE
    /\ fsm_state = "none"
    /\ h_handler = <<>>
    /\ h_pc = <<>>
    /\ h_exit = <<>>

IdleAudio ==
    /\ IdleSeg /\ IdleAssign /\ IdleChunks /\ IdleMerge
    /\ IdleFit /\ IdleAtempo /\ IdleStretch

IdleTextServices == IdleTranslate /\ IdleBatch /\ IdleClean /\ IdleVad

IdleRun ==
    /\ IdlePipeline /\ IdleSubprocess /\ IdleSignal /\ IdleTranscribe
    /\ IdleHandlers

IdleOthers ==
    /\ IdleFit /\ IdleAtempo /\ IdleStretch
    /\ IdleTextServices /\ IdleVoice /\ IdleRun

(***************************************************************************)
(* The segment allocators: segment_by_silence and assign_text_to_pauses.   *)
(***************************************************************************)
InitAllocator ==
    /\ (InitSeg /\ IdleAssign) \/ (IdleSeg /\ InitAssign)
    /\ IdleChunks
    /\ IdleMerge
    /\ IdleOthers

NextAllocator ==
    \/ FindPauses
    \/ MergeShort
    \/ BoundLong
    \/ DistributeRound
    \/ AssignText

SpecAllocator == InitAllocator /\ [][NextAllocator]_vars

(***************************************************************************)
(* The chunk builder.                                                      *)
(***************************************************************************)
InitChunker ==
    IdleSeg /\ IdleAssign /\ InitChunks /\ IdleMerge /\ IdleOthers

NextChunker == LoadSegments \/ ChunkStep \/ FinishChunks

SpecChunker == InitChunker /\ [][NextChunker]_vars

(***************************************************************************)
(* The sequential assembly of the dubbing track.                           *)
(***************************************************************************)
InitAssembler ==
    IdleSeg /\ IdleAssign /\ IdleChunks /\ InitMerge /\ IdleOthers

NextAssembler == StartMerge \/ ListStep \/ RunConcat

SpecAssembler == InitAssembler /\ [][NextAssembler]_vars

(***************************************************************************)
(* Duration matching: fit_tts_into_segment and the two tempo chains.       *)
(***************************************************************************)
InitDuration ==
    /\ IdleSeg /\ IdleAssign /\ IdleChunks /\ IdleMerge
    /\ IdleTextServices /\ IdleVoice /\ IdleRun
    /\ \/ InitFit /\ IdleAtempo /\ IdleStretch
       \/ IdleFit /\ InitAtempo /\ IdleStretch
       \/ IdleFit /\ IdleAtempo /\ InitStretch

NextDuration == FitClip \/ BuildChain \/ StretchStep \/ StretchFinal

SpecDuration == InitDuration /\ [][NextDuration]_vars

(***************************************************************************)
(* The translators: translate_segments and batch_translate_segments.       *)
(***************************************************************************)
InitTranslator ==
    /\ IdleAudio
    /\ (InitTranslate /\ IdleBatch) \/ (IdleTranslate /\ InitBatch)
    /\ IdleClean /\ IdleVad /\ IdleVoice /\ IdleRun

NextTranslator == CallGPT \/ AssembleTranslation \/ BatchCall \/ BatchParse

SpecTranslator == InitTranslator /\ [][NextTranslator]_vars

(***************************************************************************)
(* The stages a translated text passes: translate_segments, then           *)
(* split_into_chunks or the loader of the voice-over track.                *)
(***************************************************************************)
InitTextFlow ==
    /\ IdleSeg /\ IdleAssign /\ IdleMerge
    /\ IdleFit /\ IdleAtempo /\ IdleStretch
    /\ IdleBatch /\ IdleClean /\ IdleVad /\ IdleRun
    /\ \/ InitTranslate /\ IdleChunks /\ IdleVoice
       \/ IdleTranslate /\ InitChunks /\ IdleVoice
       \/ IdleTranslate /\ IdleChunks /\ InitVoice

NextTextFlow ==
    \/ CallGPT
    \/ AssembleTranslation
    \/ LoadSegments
    \/ ChunkStep
    \/ FinishChunks
    \/ LoadVoice
    \/ ApplyOnset
    \/ OverlayStep
    \/ ExportVoice

SpecTextFlow == InitTextFlow /\ [][NextTextFlow]_vars

(***************************************************************************)
(* Transcript cleaning: clean_segments_with_gpt and filter_segments.       *)
(***************************************************************************)
InitCleaner ==
    /\ IdleAudio
    /\ IdleTranslate /\ IdleBatch
    /\ (InitClean /\ IdleVad) \/ (IdleClean /\ InitVad)
    /\ IdleVoice /\ IdleRun

NextCleaner ==
    \/ CleanStart
    \/ CallGptAttempt
    \/ ProcessChunk
    \/ CleanFinish
    \/ FilterSegments

SpecCleaner == InitCleaner /\ [][NextCleaner]_vars

(***************************************************************************)
(* The voice-over track.                                                   *)
(***************************************************************************)
InitVoiceOver == IdleAudio /\ IdleTextServices /\ InitVoice /\ IdleRun

NextVoiceOver == LoadVoice \/ ApplyOnset \/ OverlayStep \/ ExportVoice

SpecVoiceOver == InitVoiceOver /\ [][NextVoiceOver]_vars

(***************************************************************************)
(* The final track in both modes: generate_voice_over_track and            *)
(* merge_audio.                                                            *)
(***************************************************************************)
InitTrack ==
    /\ IdleSeg /\ IdleAssign /\ IdleChunks
    /\ IdleFit /\ IdleAtempo /\ IdleStretch
    /\ IdleTextServices /\ IdleRun
    /\ (InitVoice /\ IdleMerge) \/ (IdleVoice /\ InitMerge)

NextTrack ==
    \/ LoadVoice
    \/ ApplyOnset
    \/ OverlayStep
    \/ ExportVoice
    \/ StartMerge
    \/ ListStep
    \/ RunConcat

SpecTrack == InitTrack /\ [][NextTrack]_vars

(***************************************************************************)
(* The dubbing pipeline.                                                   *)
(***************************************************************************)
InitDubbing ==
    /\ IdleAudio /\ IdleTextServices /\ IdleVoice /\ IdleSignal
    /\ IdleTranscribe /\ IdleHandlers
    /\ InitPipeline /\ IdleSubprocess

NextDubbing ==
    \/ RunExtractAudio
    \/ RunWhisperTranscribe
    \/ RunTranslateChunks
    \/ RunSplitChunks
    \/ RunGenerateTts
    \/ RunStretchAudio
    \/ RunMergeAudio
    \/ RunMergeVideo
    \/ ReportAllDone

SpecDubbing == InitDubbing /\ [][NextDubbing]_vars

(***************************************************************************)
(* External commands.                                                      *)
(***************************************************************************)
InitCommand ==
    /\ IdleAudio /\ IdleTextServices /\ IdleVoice /\ IdleSignal
    /\ IdleTranscribe /\ IdleHandlers
    /\ IdlePipeline /\ InitSubprocess

NextCommand == Spawn \/ ProcessExits \/ WaitReturns \/ TimeoutExpires

SpecCommand == InitCommand /\ [][NextCommand]_vars

(***************************************************************************)
(* The energy detectors.                                                   *)
(***************************************************************************)
InitDetectors ==
    /\ IdleAudio /\ IdleTextServices /\ IdleVoice
    /\ IdlePipeline /\ IdleSubprocess /\ IdleTranscribe
    /\ IdleHandlers
    /\ InitSignal

NextDetectors ==
    \/ DetectSpeechOnset
    \/ DetectSpeechStart
    \/ DetectPausesEnergy

SpecDetectors == InitDetectors /\ [][NextDetectors]_vars

(***************************************************************************)
(* The translation stage followed by the stages that read translated.json. *)
(***************************************************************************)
InitHandoff ==
    /\ IdleAudio /\ IdleBatch /\ IdleClean /\ IdleVad /\ IdleVoice /\ IdleRun
    /\ InitTranslate

NextHandoff ==
    \/ CallGPT
    \/ AssembleTranslation
    \/ SplitLoadsTranslated
    \/ LoadSegments
    \/ ChunkStep
    \/ FinishChunks
    \/ VoiceLoadsTranslated
    \/ LoadVoice

SpecHandoff == InitHandoff /\ [][NextHandoff]_vars

(***************************************************************************)
(* whisper_transcribe with the cleaner it calls.                           *)
(***************************************************************************)
InitTranscript ==
    /\ IdleAudio /\ IdleTranslate /\ IdleBatch /\ IdleClean /\ IdleVad
    /\ IdleVoice /\ IdlePipeline /\ IdleSubprocess /\ IdleSignal
    /\ IdleHandlers
    /\ InitTranscribe

NextTranscript ==
    \/ SaveAndValidate
    \/ CleanStart
    \/ CallGptAttempt
    \/ ProcessChunk
    \/ CleanFinish
    \/ PersistCleaned

SpecTranscript == InitTranscript /\ [][NextTranscript]_vars

(***************************************************************************)
(* The bot's media handlers on the messages of one user.                   *)
(***************************************************************************)
InitBot ==
    /\ IdleAudio /\ IdleTextServices /\ IdleVoice
    /\ IdlePipeline /\ IdleSubprocess /\ IdleSignal /\ IdleTranscribe
    /\ InitHandlers

NextBot ==
    \/ \E m \in Messages : HandleMedia(m)
    \/ \E m \in Messages : HandleMediaLinks(m)
    \/ \E m \in Messages : MediaJobEnds(m)
    \/ \E m \in Messages : MediaErrorReply(m)
    \/ \E m \in Messages : HandleVideoUpload(m)
    \/ \E m \in Messages : UploadJobEnds(m)
    \/ \E m \in Messages : UploadErrorReply(m)

SpecBot == InitBot /\ [][NextBot]_vars

(***************************************************************************)
(* Properties of the segment allocators.                                   *)
(***************************************************************************)
RECURSIVE FlattenTexts(_)
FlattenTexts(segs) ==
    IF segs = <<>> THEN <<>> ELSE Head(segs).text \o FlattenTexts(Tail(segs))

AllSentences(sents) == [i \in 1..Len(sents) |-> i]

\* The windows as they enter the merging loop of segment_by_silence.
EntryWindows == BoundSegments(merged_segments)

\* C1: the segments returned by segment_by_silence are time-ordered and do
\* not overlap: each segment ends no later than the next one starts, after
\* pause windowing, short-window merging, long-window splitting and the
\* window-merging loop.
C1_SegmentsOrdered ==
    \A i \in 1..(Len(whisper_segments) - 1) :
        whisper_segments[i].end <= whisper_segments[i + 1].start

\* C1 witness: a returned list of several segments whose windows went
\* through a short-window merge, a long-window split and a widening round.
C1_Witness ==
    /\ seg_pc = "done"
    /\ Len(whisper_segments) >= 2
    /\ safety_counter >= 2
    /\ Len(merged_segments)
         < Len(BuildSegmentsMs(detect_silence(silences, min_pause_ms),
                               audio_len))
    /\ Len(EntryWindows) > Len(merged_segments)

\* C2: the texts of the segments, read in segment order, are the input
\* sentence units, each exactly once and in the original order, so the word
\* totals agree; the last window takes every sentence still unallocated
\* (segment_by_silence: the last segment holds the whole rest;
\* assign_text_to_pauses: every sentence beyond the windows is placed in the
\* last window).
C2_TextConserved ==
    /\ seg_pc = "done" =>
         /\ FlattenTexts(whisper_segments) = AllSentences(sentences)
         /\ SumSeq([i \in 1..Len(whisper_segments) |->
                      TextWords(whisper_segments[i].text, sentences)])
              = SumSeq(sentences)
    /\ at_pc = "done" =>
         /\ FlattenTexts(at_segments) = AllSentences(at_sentences)
         /\ \A k \in 1..Len(at_segments) :
                k > Len(at_pauses) + 1 =>
                   /\ at_segments[k].end = total_ms
                   /\ at_segments[k].start
                        = Stops(at_pauses, total_ms)[Len(at_pauses) + 1]

\* C2 witness: the allocator ran and its last window absorbed more than one
\* sentence.
C2_Witness ==
    /\ seg_pc = "done"
    /\ safety_counter >= 1
    /\ Len(whisper_segments) >= 2
    /\ Len(whisper_segments[Len(whisper_segments)].text) >= 2

\* C3: given k windows and a text of exactly k sentence units the allocator
\* (distribution and merging loop) returns exactly k segments, segment i
\* carrying sentence i with the bounds of window i; and the clip of the
\* repository's test (three 500 ms speech blocks separated by 300 ms pauses,
\* three one-word sentences) yields three segments, one sentence each.
C3_OneSegmentPerWindow ==
    /\ (seg_pc = "done" /\ safety_counter >= 1
            /\ Len(EntryWindows) = Len(sentences)) =>
           /\ Len(whisper_segments) = Len(sentences)
           /\ \A i \in 1..Len(whisper_segments) :
                  /\ whisper_segments[i].text = <<i>>
                  /\ whisper_segments[i].start = EntryWindows[i][1]
                  /\ whisper_segments[i].end = EntryWindows[i][2]
    /\ (seg_pc = "done" /\ audio_len = 2100
            /\ silences = << <<500, 800>>, <<1300, 1600>> >>
            /\ sentences = <<1, 1, 1>>) =>
           /\ Len(whisper_segments) = 3
           /\ \A i \in 1..3 : whisper_segments[i].text = <<i>>

(***************************************************************************)
(* Properties of the chunk builder.                                        *)
(***************************************************************************)
\* str.split(): the words of a text, in order.
MinOf(S) == CHOOSE x \in S : \A y \in S : x <= y

WordStarts(t) ==
    {i \in 1..Len(t) : t[i] # " " /\ (i = 1 \/ t[i - 1] = " ")}

WordEnd(t, i) ==
    MinOf({j \in i..Len(t) : j = Len(t) \/ t[j + 1] = " "})

Words(t) ==
    LET starts == WordStarts(t)
        nth(n) == CHOOSE i \in starts :
                      Cardinality({j \in starts : j < i}) = n - 1
    IN  [n \in 1..Cardinality(starts) |-> SubSeq(t, nth(n), WordEnd(t, nth(n)))]

RECURSIVE WordsOfAll(_)
WordsOfAll(texts) ==
    IF texts = <<>> THEN <<>>
    ELSE Words(Head(texts)) \o WordsOfAll(Tail(texts))

\* C4: the texts of the chunk files, read in chunk order, are the non-empty
\* segment texts read in segment order (word for word, whatever the single
\* spaces the chunker puts between two segment texts): nothing is dropped,
\* duplicated or reordered.
C4_ChunkTextConserved ==
    (ck_pc \in {"done", "failed"} /\ ck_segments # <<>>) =>
        WordsOfAll([i \in 1..Len(saved_chunks) |-> saved_chunks[i].text])
            = WordsOfAll([k \in 1..Len(ck_segments) |-> ck_segments[k].dst])

\* C4 witness: several chunks were written from segments of which one has
\* an empty text and one a text of two words.
C4_Witness ==
    /\ ck_pc = "done"
    /\ Len(saved_chunks) >= 2
    /\ \E k \in 1..Len(ck_segments) : ck_segments[k].dst = <<>>
    /\ \E k \in 1..Len(ck_segments) : Len(Words(ck_segments[k].dst)) = 2

(***************************************************************************)
(* Properties of the sequential assembly.                                  *)
(***************************************************************************)
\* C5: on the track built by merge_audio every clip starts at or after the
\* end of the clip before it, whatever the clip lengths and the chunk
\* timestamps.
C5_SequentialNoOverlap ==
    \A k \in 1..(Len(placements) - 1) :
        placements[k + 1].start_ms >= placements[k].end_ms

\* C5 witness: a finished track of several clips where a chunk starts
\* before the clip of the chunk before it has ended.
C5_Witness ==
    /\ mg_pc = "done"
    /\ Len(placements) >= 3
    /\ \E k \in 1..(Len(placements) - 1) :
          mg_chunks[k + 1].start < placements[k].end_ms

\* C6: every clip of the track, the first included, starts at
\* max(requested start, end of the previous clip), the requested start
\* being the start of its chunk.
C6_PlacedAtMaxOfRequestAndPrevious ==
    mg_pc = "done" =>
        \A k \in 1..Len(placements) :
            placements[k].start_ms
                = Max(mg_chunks[k].start,
                      IF k = 1 THEN 0 ELSE placements[k - 1].end_ms)


(***************************************************************************)
(* Properties of duration matching.                                        *)
(***************************************************************************)
FitReturned == fit_pc \in {"done", "failed"}

NoTempoRun(a) == \A i \in 1..Len(a) : a[i].kind # "tempo"

\* C7: for a clip no longer than its window, and a window longer than 0,
\* fit_tts_into_segment returns exactly target_ms of audio: a shorter clip
\* comes back whole and unmodified, followed by the missing silence, and a
\* clip of exactly target_ms comes back as it was.
C7_ShortClipFillsWindow ==
    (FitReturned /\ target_ms > 0 /\ clip_ms <= target_ms) =>
        /\ fit_pc = "done"
        /\ fit_error = "none"
        /\ AudioLen(fitted) = target_ms
        /\ clip_ms < target_ms =>
               fitted = ClipAudio(clip_ms) \o
                        << [kind |-> "silence", len |-> target_ms - clip_ms] >>
        /\ clip_ms = target_ms => fitted = ClipAudio(clip_ms)

C7_Witness ==
    /\ fit_pc = "done"
    /\ 0 < clip_ms
    /\ clip_ms < target_ms
    /\ fit_branch = "pad"
    /\ Len(fitted) = 2

\* C8: a clip more than 10% longer than its window is not tempo-scaled:
\* fit_tts_into_segment returns its first target_ms milliseconds as they
\* were, prints the warning and raises nothing; 30 s in a 10 s window
\* gives exactly 10000 ms and the warning.
C8_OverlongClipHardTrimmed ==
    (FitReturned /\ target_ms > 0 /\ clip_ms * 10 > 11 * target_ms) =>
        /\ fit_pc = "done"
        /\ fit_error = "none"
        /\ fit_warning
        /\ NoTempoRun(fitted)
        /\ fitted = << [kind |-> "tts", len |-> target_ms] >>
        /\ AudioLen(fitted) = target_ms

C8_Witness ==
    /\ fit_pc = "done"
    /\ clip_ms = 30000
    /\ target_ms = 10000
    /\ fit_warning
    /\ AudioLen(fitted) = 10000

Is12sIn10s == FitReturned /\ clip_ms = 12000 /\ target_ms = 10000

\* C9 as stated: a 12 s clip in a 10 s window is fitted by tempo scaling,
\* not by hard-trimming, and comes out within 15 ms of 10000 ms.
C9_TwelveSecondsTempoScaled ==
    Is12sIn10s =>
        /\ fit_branch = "tempo"
        /\ ~fit_warning
        /\ AudioLen(fitted) >= 10000 - 15
        /\ AudioLen(fitted) <= 10000 + 15

\* C9 amended: a 12 s clip in a 10 s window is 20% over, beyond the 10%
\* tolerance, so it is hard-trimmed with the warning and no tempo scaling,
\* and comes out at exactly 10000 ms.
C9_TwelveSecondsHardTrimmed ==
    Is12sIn10s =>
        /\ fit_pc = "done"
        /\ fit_branch = "hard_trim"
        /\ fit_warning
        /\ NoTempoRun(fitted)
        /\ AudioLen(fitted) = 10000

C9_Witness == Is12sIn10s /\ fit_branch # "none" /\ fitted # <<>>

InSupportedRange(stage) == 2 * stage[1] >= stage[2] /\ stage[1] <= 2 * stage[2]

StretchTempos == [i \in 1..Len(fs_calls) |-> fs_calls[i].tempo]

\* C10: for every ratio r > 0 the stages of build_atempo_chain and the
\* stages of ffmpeg_stretch each lie within [0.5, 2.0], and the product of
\* the stages equals r.
C10_TempoChainProductIsRatio ==
    /\ ac_pc = "done" =>
          /\ \A i \in 1..Len(filters) : InSupportedRange(filters[i])
          /\ RatProd(filters) = Reduce(ac_ratio)
    /\ fs_pc = "done" =>
          /\ \A i \in 1..Len(fs_calls) : InSupportedRange(fs_calls[i].tempo)
          /\ RatProd(StretchTempos) = Reduce(fs_factor)

(***************************************************************************)
(* Properties of the translated text on its way through the stages.        *)
(***************************************************************************)
\* C11: a segment whose target text is empty is legal and passes as
\* silence: the translation validation does not raise for an empty dst, the
\* chunk validation does not raise for a chunk whose segments are all
\* silent, and the voice-over loader does not raise when the only reason to
\* drop segments is their empty text.
C11_EmptyTargetTextNeverRaises ==
    /\ tr_error # "TranslationValidationError: empty translation"
    /\ ck_error # "ChunkValidationError: empty text"
    /\ ~ /\ vo_error = "VoiceOverError: no translated segments with text"
         /\ \A i \in 1..Len(vo_raw) : vo_raw[i].end > vo_raw[i].start

IdsOf(entries) == {entries[i].id : i \in 1..Len(entries)}

IndicesOf(items) == {items[i].index : i \in 1..Len(items)}

SameTiming(out, segs) ==
    /\ Len(out) = Len(segs)
    /\ \A i \in 1..Len(segs) :
         out[i].start = segs[i].start /\ out[i].end = segs[i].end

\* C12: a translation that returns normally keeps the length, the ids, the
\* times and the order of its input, and a reply whose count or ids do not
\* match what was asked never ends in a normal return.
C12_TranslationKeepsIdsOrRaises ==
    /\ tr_pc = "done" =>
         /\ SameTiming(translated_json, tr_segments)
         /\ \A i \in 1..Len(tr_segments) :
              translated_json[i].id = tr_segments[i].id
         /\ Len(gpt_response.segments) = Len(NonEmptySegments(tr_segments))
         /\ IdsOf(gpt_response.segments) = IdsOf(NonEmptySegments(tr_segments))
    /\ bt_pc = "done" =>
         /\ SameTiming(bt_result, bt_segments)
         /\ Len(translated_response.items) = Len(bt_segments)
         /\ IndicesOf(translated_response.items) = 1..Len(bt_segments)

(***************************************************************************)
(* Properties of the transcript cleaners.                                  *)
(***************************************************************************)
RECURSIVE JoinChunks(_)
JoinChunks(cs) == IF cs = <<>> THEN <<>> ELSE Head(cs) \o JoinChunks(Tail(cs))

SameFrame(out, segs) ==
    /\ Len(out) = Len(segs)
    /\ \A i \in 1..Len(segs) :
         /\ out[i].id = segs[i].id
         /\ out[i].start = segs[i].start
         /\ out[i].end = segs[i].end

\* C13: cleaning changes only the text.  The batches handed to the service
\* are the input segments in order; when clean_segments_with_gpt returns,
\* the stored segments have the number, ids, start and end of the input in
\* the same order; so has the list filter_segments returns, in which a
\* segment is either unchanged or has its text cleared.
C13_CleaningChangesOnlyText ==
    /\ cl_pc = "chunk" => JoinChunks(cl_chunks) = json_segments
    /\ cl_pc = "done" /\ cl_chunks # <<>> =>
         SameFrame(json_segments, JoinChunks(cl_chunks))
    /\ vad_pc = "done" =>
         /\ SameFrame(filtered_segments, vad_segments)
         /\ \A i \in 1..Len(vad_segments) :
              filtered_segments[i].text \in {vad_segments[i].text, EmptyText}

\* A transcript cleaned in two batches in which the service cleared a noise
\* segment, or a filtered transcript in which a voiceless segment was cleared.
C13_Witness ==
    \/ /\ cl_pc = "done"
       /\ Len(cl_chunks) = 2
       /\ \E i \in 1..Len(json_segments) :
            /\ JoinChunks(cl_chunks)[i].text = NoiseText
            /\ json_segments[i].text = EmptyText
    \/ /\ vad_pc = "done"
       /\ Len(vad_segments) = 2
       /\ \E i \in 1..Len(vad_segments) :
            /\ vad_segments[i].text = SpeechText
            /\ vad_segments[i].end > vad_segments[i].start
            /\ filtered_segments[i].text = EmptyText

(***************************************************************************)
(* Properties of the chunk validation.                                     *)
(***************************************************************************)
ChunkIsValid(c) ==
    /\ c.text # <<>>
    /\ c.end - c.start > 0
    /\ Len(c.text) <= CHUNK_CHAR_CEILING

ChunkValidationErrors ==
    {"ChunkValidationError: empty text",
     "ChunkValidationError: invalid time range",
     "ChunkValidationError: too many characters"}

\* C14: when split_into_chunks returns normally after saving chunks, every
\* saved chunk has a text, a duration above 0 and at most 350 characters;
\* when a saved chunk breaks one of these, ChunkValidationError is raised;
\* and every saved text is the whole text gathered for its chunk, blanks at
\* the ends aside: nothing is cut off to make it pass.
C14_SavedChunksValidOrRaise ==
    saved_chunks # <<>> =>
        /\ ck_pc = "done" =>
             \A i \in 1..Len(saved_chunks) : ChunkIsValid(saved_chunks[i])
        /\ (\E i \in 1..Len(saved_chunks) : ~ChunkIsValid(saved_chunks[i])) =>
             ck_pc = "failed" /\ ck_error \in ChunkValidationErrors
        /\ Len(saved_chunks) = Len(chunks)
        /\ \A i \in 1..Len(saved_chunks) :
             saved_chunks[i].text = Strip(chunks[i][3])

\* Two chunks were saved and accepted, the first one holding two segments.
C14_Witness ==
    /\ ck_pc = "done"
    /\ Len(saved_chunks) = 2
    /\ Len(ck_segments) = 3
    /\ saved_chunks[1].end = ck_segments[2].end

(***************************************************************************)
(* Properties of the final track.                                          *)
(***************************************************************************)
\* The length of the dubbing track: the end of its last clip.
DubbingTrackEnd == placements[Len(placements)].end_ms

\* C15: when the assembly of the final track reports success, the track is
\* at least as long as the source less 0.5 s.  In voice-over mode the
\* source lasts total_duration; in dubbing mode it lasts at least until the
\* end of the last chunk.
C15_TrackCoversSource ==
    /\ vo_pc = "done" => wav_duration >= total_duration - SANITY_MARGIN_MS
    /\ mg_pc = "done" /\ placements # <<>> =>
         DubbingTrackEnd >= mg_chunks[Len(mg_chunks)].end - SANITY_MARGIN_MS

PlacementEnds == [i \in 1..Len(overlays) |-> overlays[i].position + overlays[i].clip]

\* C16: the overlay track is as long as the greatest placement end plus the
\* 500 ms tail, so every placed clip is heard to its end.
C16_TrackEndsAfterLastClip ==
    vo_pc = "done" =>
        /\ wav_duration = SeqMax(PlacementEnds) + SILENCE_TAIL_MS
        /\ \A i \in 1..Len(overlays) :
             AudibleEnd(overlays[i], wav_duration) = PlacementEnds[i]

C18_CommandsHaveTimeoutAndAreReaped ==
    /\ sp_pc = "waiting" => sp_site.timeout # NO_TIMEOUT
    /\ ~(sp_pc = "waiting" /\ proc = "running" /\ proc_hangs
           /\ ~ENABLED TimeoutExpires)
    /\ sp_pc \in {"returned", "raised"} => proc = "reaped"

(***************************************************************************)
(* Properties of the two allocators' windows.                              *)
(***************************************************************************)
\* C19: the segments produced by assign_text_to_pauses are ordered and do
\* not overlap, for every sentence list and pause list, also when there are
\* fewer windows than sentences: every segment ends no later than the next
\* one starts.
C19_AssignedSegmentsDoNotOverlap ==
    at_pc = "done" =>
        \A i \in 1..(Len(at_segments) - 1) :
            at_segments[i].end <= at_segments[i + 1].start

\* Sentences held by the first i segments.
RECURSIVE SentencesUpTo(_, _)
SentencesUpTo(segs, i) ==
    IF i = 0 THEN 0 ELSE Len(segs[i].text) + SentencesUpTo(segs, i - 1)

\* C20: a round of distribute_text over windows that are no more numerous
\* than the sentence units returns one segment per window, each with the
\* bounds of its window and at least one sentence, and after every non-final
\* window at least as many sentences are left as windows remain.
C20_NoWindowStarves ==
    [][(seg_pc = "loop" /\ Len(sentences) >= Len(segments_ms)) =>
          /\ Len(whisper_segments') = Len(segments_ms)
          /\ \A i \in 1..Len(segments_ms) :
                 /\ whisper_segments'[i].text # <<>>
                 /\ whisper_segments'[i].start = segments_ms[i][1]
                 /\ whisper_segments'[i].end = segments_ms[i][2]
                 /\ i < Len(segments_ms) =>
                        Len(sentences) - SentencesUpTo(whisper_segments', i)
                            >= Len(segments_ms) - i]_vars

\* C20 witness: the last round ran over fewer windows than sentences, a
\* non-final window packed more than one sentence and stopped with exactly
\* one sentence left for each later window.
C20_Witness ==
    /\ seg_pc = "done"
    /\ safety_counter >= 1
    /\ Len(segments_ms) >= 2
    /\ Len(sentences) > Len(segments_ms)
    /\ Len(whisper_segments) = Len(segments_ms)
    /\ \E i \in 1..(Len(segments_ms) - 1) :
           /\ Len(whisper_segments[i].text) >= 2
           /\ Len(sentences) - SentencesUpTo(whisper_segments, i)
                = Len(segments_ms) - i

(***************************************************************************)
(* Properties of the chunk boundaries.                                     *)
(***************************************************************************)
\* C21: a segment with empty text never forces a chunk boundary: the pass of
\* the loop over it closes no chunk, it only moves the running chunk's end.
C21_EmptySegmentClosesNoChunk ==
    [][(ck_pc = "loop" /\ ck_i <= Len(ck_segments)
            /\ ck_segments[ck_i].dst = <<>>) =>
          /\ chunks' = chunks
          /\ current_start' = current_start
          /\ current_end' = ck_segments[ck_i].end]_vars

\* C26: when every segment has text, every chunk the loop emits holds at
\* least one segment and has non-empty text, also when the first segment
\* alone exceeds MAX_CHARS or MAX_DURATION.
C26_NoChunkWithoutSegment ==
    (\A k \in 1..Len(ck_segments) : Strip(ck_segments[k].dst) # <<>>) =>
        /\ \A c \in 1..Len(chunks) : Strip(chunks[c][3]) # <<>>
        /\ \A c \in 1..Len(saved_chunks) : saved_chunks[c].text # <<>>

(***************************************************************************)
(* Properties of the energy detectors.                                     *)
(***************************************************************************)
\* The frames of the hold window that starts at the reported onset.
OnsetWindow ==
    LET step == IF sg_fn = "detect_speech_onset" THEN step_ms ELSE frame_ms
        frames == IF sg_fn = "detect_speech_onset" THEN HoldFrames(hold_ms)
                  ELSE hold_ms \div frame_ms
        idx == onset \div step
    IN  [j \in 1..frames |-> At(smoothed, idx + j)]

\* C22: a non-zero onset t is reported only if every frame of the hold
\* window starting at t is above the threshold; a single spike followed by
\* frames below the threshold is never reported.
C22_OnsetNeedsSustainedEnergy ==
    /\ (sg_fn = "detect_speech_onset" /\ onset # 0) =>
           WindowAllAbove(OnsetWindow, threshold, HoldFrames(hold_ms))
    /\ (sg_fn = "detect_speech_start" /\ onset # 0) =>
           WindowAllAbove(OnsetWindow, threshold, hold_ms \div frame_ms)

\* C23: the speech threshold of the energy detectors is never zero, also
\* for a fully silent and a fully loud clip: the speech and silence
\* thresholds of detect_pauses_energy and the threshold of
\* detect_speech_onset are strictly positive.
C23_ThresholdNeverZero ==
    /\ sg_fn = "detect_speech_onset" => threshold > 0
    /\ sg_fn = "detect_pauses_energy" => threshold > 0 /\ silence_thr > 0

(***************************************************************************)
(* Properties of the retries of the cleaning call.                         *)
(***************************************************************************)
\* C24: for one batch the service is called at most MAX_RETRIES = 2 times; a
\* failed call or unparsable reply is followed by another attempt until that
\* limit and RuntimeError is raised only when the limit is used up; a reply
\* of the wrong shape (no segments list, wrong count, other id, changed
\* timestamps) raises at once and the service is not called again.
C24_RetryOnlyTransientFailures ==
    /\ [](attempt <= MAX_RETRIES)
    /\ [](cl_error = "RuntimeError: GPT failed" => attempt = MAX_RETRIES)
    /\ [][(cl_pc = "chunk" /\ attempt' = attempt + 1 /\ cl_pc' # "check") =>
             IF attempt' < MAX_RETRIES
             THEN cl_pc' = "chunk" /\ cl_error' = "none"
             ELSE cl_pc' = "failed"
                  /\ cl_error' = "RuntimeError: GPT failed"]_vars
    /\ [][(cl_pc = "check"
               /\ ChunkFault(cl_chunks[cl_k], cl_reply) # "none") =>
             /\ cl_pc' = "failed"
             /\ cl_error' = ChunkFault(cl_chunks[cl_k], cl_reply)
             /\ attempt' = attempt]_vars
    /\ [](cl_pc = "failed" => ~ENABLED CallGptAttempt)

\* C24 witness: the first call failed, the second returned a reply with a
\* segment missing, and the run ended with that error after two calls.
C24_Witness ==
    /\ cl_pc = "failed"
    /\ attempt = MAX_RETRIES
    /\ cl_reply.kind = "json"
    /\ cl_error = "RuntimeError: lost segments"

\* C25: a run fails atomically: when a stage has failed and the run has
\* stopped, nothing that the earlier stages of the run wrote is left in the
\* pipeline folders.
C25_FailedRunLeavesNothing ==
    pl_pc = "halted" => disk = EmptyDisk

(***************************************************************************)
(* Properties of the artifacts handed from stage to stage.                 *)
(***************************************************************************)
\* C27: what translate_segments wrote to translated.json is accepted by both
\* of its readers: split_chunks gets the written segments, and
\* load_translated_segments raises no format error.
C27_TranslatedJsonAcceptedByReaders ==
    /\ (tr_pc = "done" /\ ck_pc # "idle") =>
           /\ Len(ck_segments) = Len(translated_json)
           /\ \A k \in 1..Len(ck_segments) :
                  ck_segments[k].dst = translated_json[k].dst
    /\ tr_pc = "done" => vo_error # "VoiceOverError: unexpected format"

\* C28: whenever whisper_transcribe returns, the transcript it leaves in
\* transcript.json, the cleaned one, has segments and at least one of them
\* has text.
C28_PersistedTranscriptHasVoice ==
    wt_pc = "done" =>
        /\ transcript_json # <<>>
        /\ \E i \in 1..Len(transcript_json) : HasVoice(transcript_json[i])

\* stretch_audio.py lines 53-66: output_path + ".tmp.wav" exists once an
\* intermediate stage has written it, until the cleanup after the last stage.
TmpFileExists == fs_pc # "done" /\ fs_current = "output.tmp.wav"

\* C29: no stage of ffmpeg_stretch is started with one file as both its
\* input and its output, whatever the factor and the number of stages, and
\* no temporary file is left once the call has ended.
C29_StagesUseDistinctFiles ==
    /\ \A i \in 1..Len(fs_calls) : fs_calls[i].input # fs_calls[i].output
    /\ fs_pc \in {"done", "failed"} => ~TmpFileExists

(***************************************************************************)
(* Properties of the bot's media handlers.                                 *)
(***************************************************************************)
JobsInFlight == {m \in Messages : InFlight(m)}

\* C30: of the media messages of one user at most one is past the check of
\* the 'processing' flag at a time, and once no handler is running the flag
\* is false, however the handlers ended.
C30_OneJobAndFlagReset ==
    /\ Cardinality(JobsInFlight) <= 1
    /\ JobsInFlight = {} => processing = FALSE

====
